---------------------------- MODULE Spec2Model ----------------------------
(***************************************************************************)
(* State-machine model of the real-estate REST backend: the property       *)
(* collection with its create / update / delete / list handlers, and the   *)
(* contact collection with its submit / update / markAsContacted handlers  *)
(* and the pre-save classification hook.                                   *)
(*                                                                         *)
(* Text (names, messages, query-string values, formatted prices) is a      *)
(* sequence of one-character strings, so that substring search, case       *)
(* folding, number parsing and currency formatting are computed character  *)
(* by character.  A document is a function from field names to values; a   *)
(* field that is not set is absent from the function's domain.             *)
(***************************************************************************)
EXTENDS Integers, Sequences, FiniteSets, TLC

VARIABLES
    properties,   \* the Property collection: id -> document
    nextPid,      \* next fresh Property _id
    contacts,     \* the Contact collection: id -> document
    nextCid,      \* next fresh Contact _id
    now,          \* the clock read by new Date() and by the timestamps
    response,     \* the response sent to the last request
    request,      \* the last request (handler name and its inputs)
    crawl,        \* a client walking page = 1, 2, ... of one list query
    saves,        \* the save() calls started by incrementViews, not yet settled
    nextRid,      \* next fresh number of a served read
    errorLog,     \* the reads whose failed save console.error has logged
    storeCalls,   \* the calls on the store made for the last request, in order
    nodeEnv,      \* process.env.NODE_ENV
    services,     \* the Service collection: id -> document
    nextSid,      \* next fresh Service _id
    serviceSaves, \* the save() calls started by Service incrementViews
    hits,         \* the requests each rate limiter has counted in its window
    users,        \* the User collection: id -> document
    nextUid,      \* next fresh User _id
    inflight      \* handlers waiting between two of their calls on the store

serviceVars == <<services, nextSid, serviceSaves>>

userVars == <<users, nextUid>>

vars == <<properties, nextPid, contacts, nextCid, now, response, request, crawl,
          saves, nextRid, errorLog, storeCalls, nodeEnv, serviceVars, hits,
          userVars, inflight>>

propVars == <<properties, nextPid>>
contactVars == <<contacts, nextCid>>
viewVars == <<saves, nextRid, errorLog>>
envVars == <<nodeEnv, hits, userVars, inflight>>

(***************************************************************************)
(* Bounds of the model.                                                    *)
(***************************************************************************)
MaxPid == 2          \* property ids handed out in the CRUD runs
MaxQueryPid == 6     \* property ids handed out in the list-query runs
MaxTime == 1         \* clock ticks
MaxCid == 1          \* contacts created in one run
MaxRid == 2          \* reads of single listings served in one run
MaxSearchPid == 3    \* property ids handed out in the search runs
MaxSid == 2          \* services created in one run
MaxHits == 5         \* requests counted by a rate limiter in one window

(***************************************************************************)
(* Records with optional fields.                                           *)
(***************************************************************************)
Empty == [k \in {} |-> 0]

Has(r, k) == k \in DOMAIN r

Get(r, k, default) == IF k \in DOMAIN r THEN r[k] ELSE default

\* Object spread / $set: the fields of patch override those of base.
Assign(base, patch) == patch @@ base

Min(a, b) == IF a < b THEN a ELSE b

Max(a, b) == IF a > b THEN a ELSE b

(***************************************************************************)
(* Text.                                                                   *)
(***************************************************************************)
DigitChars == <<"0", "1", "2", "3", "4", "5", "6", "7", "8", "9">>

IsDigit(c) == \E i \in 1..10 : DigitChars[i] = c

DigitVal(c) == (CHOOSE i \in 1..10 : DigitChars[i] = c) - 1

RECURSIVE Digits(_)
Digits(n) == IF n < 10 THEN <<DigitChars[n + 1]>>
             ELSE Digits(n \div 10) \o <<DigitChars[(n % 10) + 1]>>

Pad3(n) == <<DigitChars[(n \div 100) + 1], DigitChars[((n \div 10) % 10) + 1],
             DigitChars[(n % 10) + 1]>>

RECURSIVE Grouped(_)
Grouped(n) == IF n < 1000 THEN Digits(n)
              ELSE Grouped(n \div 1000) \o <<",">> \o Pad3(n % 1000)

\* Intl.NumberFormat('en-US', {style: 'currency', currency: 'USD'}).format(n)
\* for a whole, non-negative n: "$", the digits grouped by three, ".00".
FormatUSD(n) == <<"$">> \o Grouped(n) \o <<".", "0", "0">>

(***************************************************************************)
(* Property schema.                                                        *)
(***************************************************************************)
Categories == {"Residential", "Commercial"}

ResidentialTypes == {"House", "Villa", "Apartment", "Penthouse", "Condo", "Townhouse"}

CommercialTypes == {"Office Building", "Retail Space", "Warehouse", "Industrial", "Mixed-Use"}

PropertyTypes == {"Buy", "Sell", "Lease Out"}

PropertyStatuses == {"Available", "Pending", "Sold", "Rented", "Off Market"}

\* The subcategory validator run by validate()/save(): `this` is the document.
SubcategoryValidator(category, value) ==
    IF category = "Residential" THEN value \in ResidentialTypes
    ELSE IF category = "Commercial" THEN value \in CommercialTypes
    ELSE FALSE

\* Schema validation of a whole new document (Property.create).
ValidPropertyDoc(doc) ==
    /\ doc.category \in Categories
    /\ SubcategoryValidator(doc.category, doc.subcategory)
    /\ doc.price >= 0
    /\ doc.type \in PropertyTypes
    /\ doc.status \in PropertyStatuses

\* Update validators (runValidators: true on findByIdAndUpdate) run only on
\* the paths present in the update, and `this` is not the document there:
\* this.category is undefined, so the subcategory validator returns false
\* for every value.
ValidPropertyUpdate(body) ==
    /\ Has(body, "category") => body.category \in Categories
    /\ Has(body, "subcategory") => SubcategoryValidator("undefined", body.subcategory)
    /\ Has(body, "price") => body.price >= 0
    /\ Has(body, "type") => body.type \in PropertyTypes
    /\ Has(body, "status") => body.status \in PropertyStatuses

\* The pre('save') hook of the Property schema.
PropertyPreSave(doc) ==
    IF doc.price # 0
      THEN Assign(doc, [priceFormatted |-> FormatUSD(doc.price)])
      ELSE doc

\* Schema defaults applied when a document is constructed.
PropertyDefaults == [status |-> "Available", featured |-> FALSE, views |-> 0]

\* The fields of the Property schema the model keeps.
PropertyPaths == {"name", "description", "location", "category", "subcategory",
                  "price", "priceFormatted", "type", "status", "featured", "views"}

\* strict mode: fields that are not schema paths are dropped.
Strict(body, paths) == [k \in (DOMAIN body) \cap paths |-> body[k]]

(***************************************************************************)
(* Route validation (express-validator chains).                            *)
(***************************************************************************)
\* validateProperty: the chain of POST /properties.
ValidateProperty(body) ==
    /\ {"name", "category", "subcategory", "price", "type"} \subseteq DOMAIN body
    /\ Len(body.name) >= 1
    /\ body.category \in Categories
    /\ body.price >= 0
    /\ body.type \in PropertyTypes
    /\ Has(body, "status") => body.status \in PropertyStatuses
    /\ Has(body, "featured") => body.featured \in BOOLEAN

\* validatePropertyUpdate: every field optional.
ValidatePropertyUpdate(body) ==
    /\ Has(body, "category") => body.category \in Categories
    /\ Has(body, "price") => body.price >= 0
    /\ Has(body, "type") => body.type \in PropertyTypes
    /\ Has(body, "status") => body.status \in PropertyStatuses
    /\ Has(body, "featured") => body.featured \in BOOLEAN

(***************************************************************************)
(* Responses.                                                              *)
(***************************************************************************)
\* A call on the store; a find carries its offset and its limit.
Call(name) == [call |-> name]

FindCall(skip, limit) == [call |-> "find", skip |-> skip, limit |-> limit]

\* The members of a failure body written by a handler or a middleware, and
\* of its error object.
FailureEnvelope == {"success", "error", "timestamp"}

FailureErrorKeys == {"code", "message"}

Failure(op, status, code) ==
    [op |-> op, success |-> FALSE, status |-> status, code |-> code,
     envelope |-> FailureEnvelope, errorKeys |-> FailureErrorKeys]

Success(op, status, data) == [op |-> op, success |-> TRUE, status |-> status, data |-> data]

NoResponse == [op |-> "none", success |-> TRUE, status |-> 0]

NoRequest == [op |-> "none"]

NoCrawl == [active |-> FALSE]

(***************************************************************************)
(* errorHandler: what asyncHandler's .catch(next) hands to the global      *)
(* error handler, and the failure response it sends.  An error is a record *)
(* with its name, its message and the own properties it carries (code,     *)
(* statusCode, status).                                                    *)
(***************************************************************************)
\* let error = { ...err }; error.message = err.message: the own enumerable
\* properties and the message, not the name and not the stack.
SpreadError(err) == [k \in (DOMAIN err) \ {"name", "stack"} |-> err[k]]

\* The chain of `if`s of errorHandler, each replacing `error` when it applies.
ClassifyError(err) ==
    LET e0 == SpreadError(err)
        e1 == IF err.name = "CastError"
                THEN [code |-> "NOT_FOUND", message |-> "Resource not found",
                      statusCode |-> 404]
                ELSE e0
        e2 == IF Has(err, "code") /\ err.code = "11000"
                THEN [code |-> "DUPLICATE_FIELD", message |-> "Field already exists",
                      statusCode |-> 400, details |-> "field"]
                ELSE e1
        e3 == IF err.name = "ValidationError"
                THEN [code |-> "VALIDATION_ERROR", message |-> "Invalid input data",
                      statusCode |-> 400, details |-> "errors"]
                ELSE e2
        e4 == IF err.name = "JsonWebTokenError"
                THEN [code |-> "UNAUTHORIZED", message |-> "Invalid token",
                      statusCode |-> 401]
                ELSE e3
        e5 == IF err.name = "TokenExpiredError"
                THEN [code |-> "UNAUTHORIZED", message |-> "Token has expired",
                      statusCode |-> 401]
                ELSE e4
        e6 == IF Has(err, "code") /\ err.code = "LIMIT_FILE_SIZE"
                THEN [code |-> "FILE_TOO_LARGE", message |-> "File size too large",
                      statusCode |-> 400]
                ELSE e5
        e7 == IF Has(err, "code") /\ err.code = "LIMIT_FILE_COUNT"
                THEN [code |-> "TOO_MANY_FILES", message |-> "Too many files uploaded",
                      statusCode |-> 400]
                ELSE e6
        e8 == IF Has(err, "code") /\ err.code = "LIMIT_UNEXPECTED_FILE"
                THEN [code |-> "INVALID_FILE_FIELD", message |-> "Unexpected file field",
                      statusCode |-> 400]
                ELSE e7
    IN IF Has(err, "status") /\ err.status = 429
         THEN [code |-> "RATE_LIMIT_EXCEEDED",
               message |-> "Too many requests, please try again later",
               statusCode |-> 429]
         ELSE e8

\* The response errorHandler sends for err while serving op.
ErrorHandler(op, err, env) ==
    LET error == ClassifyError(err)
        statusCode == IF Has(error, "statusCode") THEN error.statusCode
                      ELSE IF Has(err, "statusCode") THEN err.statusCode
                      ELSE 500
        code == IF Has(error, "code") THEN error.code ELSE "INTERNAL_ERROR"
        message == IF Has(error, "message") /\ error.message # ""
                     THEN error.message ELSE "Internal server error"
    IN Assign(Assign([op |-> op, success |-> FALSE, status |-> statusCode,
                      code |-> code, message |-> message,
                      envelope |-> FailureEnvelope,
                      errorKeys |-> FailureErrorKeys
                                      \cup (IF Has(error, "details") THEN {"details"} ELSE {})
                                      \cup (IF env = "development" THEN {"stack"} ELSE {})],
                     IF Has(error, "details") THEN [details |-> error.details] ELSE Empty),
              IF env = "development" THEN [stack |-> err.stack] ELSE Empty)

(***************************************************************************)
(* Property handlers.                                                      *)
(***************************************************************************)
\* POST /api/v1/properties
createProperty(body) ==
    /\ request' = [op |-> "createProperty"]
    /\ crawl' = NoCrawl
    /\ UNCHANGED <<contactVars, now, viewVars, envVars, serviceVars>>
    /\ IF ~ValidateProperty(body)
         THEN /\ storeCalls' = <<>>
              /\ response' = Failure("createProperty", 400, "VALIDATION_ERROR")
              /\ UNCHANGED propVars
         ELSE LET doc == Assign(Assign(PropertyDefaults, Strict(body, PropertyPaths)),
                                [createdAt |-> now])
              IN IF ~ValidPropertyDoc(doc)
                   THEN /\ storeCalls' = <<>>
                        /\ response' = Failure("createProperty", 400, "VALIDATION_ERROR")
                        /\ UNCHANGED propVars
                   ELSE LET saved == PropertyPreSave(doc)
                        IN /\ properties' = (nextPid :> saved) @@ properties
                           /\ nextPid' = nextPid + 1
                           /\ storeCalls' = <<Call("insertOne")>>
                           /\ response' = Success("createProperty", 201,
                                  Assign([id |-> nextPid, price |-> saved.price,
                                          category |-> saved.category,
                                          subcategory |-> saved.subcategory],
                                         Strict(saved, {"priceFormatted"})))

\* PUT /api/v1/properties/:id
updateProperty(id, body) ==
    /\ request' = [op |-> "updateProperty", id |-> id]
    /\ crawl' = NoCrawl
    /\ UNCHANGED <<contactVars, now, nextPid, viewVars, envVars, serviceVars>>
    /\ IF ~ValidatePropertyUpdate(body)
         THEN /\ storeCalls' = <<>>
              /\ response' = Failure("updateProperty", 400, "VALIDATION_ERROR")
              /\ UNCHANGED properties
         ELSE IF id \notin DOMAIN properties
           THEN /\ storeCalls' = <<Call("findById")>>
                /\ response' = Failure("updateProperty", 404, "NOT_FOUND")
                /\ UNCHANGED properties
           ELSE IF ~ValidPropertyUpdate(body)
             THEN /\ storeCalls' = <<Call("findById")>>
                  /\ response' = Failure("updateProperty", 400, "VALIDATION_ERROR")
                  /\ UNCHANGED properties
             ELSE LET updated == Assign(properties[id], Strict(body, PropertyPaths))
                  IN /\ properties' = [properties EXCEPT ![id] = updated]
                     /\ storeCalls' = <<Call("findById"), Call("findOneAndUpdate")>>
                     /\ response' = Success("updateProperty", 200,
                            Assign([id |-> id, price |-> updated.price],
                                   Strict(updated, {"priceFormatted"})))

\* deleteProperty, mutated: the listing is kept and marked, not removed.
deletePropertySoft(id) ==
    /\ request' = [op |-> "deleteProperty", id |-> id]
    /\ crawl' = NoCrawl
    /\ UNCHANGED <<contactVars, now, nextPid, viewVars, envVars, serviceVars>>
    /\ IF id \notin DOMAIN properties
         THEN /\ storeCalls' = <<Call("findById")>>
              /\ response' = Failure("deleteProperty", 404, "NOT_FOUND")
              /\ UNCHANGED properties
         ELSE /\ properties' = [properties EXCEPT ![id] = Assign(@, [status |-> "Sold"])]
              /\ storeCalls' = <<Call("findById"), Call("findOneAndDelete")>>
              /\ response' = Success("deleteProperty", 200, Empty)

\* DELETE /api/v1/properties/:id
deleteProperty(id) ==
    /\ request' = [op |-> "deleteProperty", id |-> id]
    /\ crawl' = NoCrawl
    /\ UNCHANGED <<contactVars, now, nextPid, viewVars, envVars, serviceVars>>
    /\ IF id \notin DOMAIN properties
         THEN /\ storeCalls' = <<Call("findById")>>
              /\ response' = Failure("deleteProperty", 404, "NOT_FOUND")
              /\ UNCHANGED properties
         ELSE /\ properties' = [i \in (DOMAIN properties) \ {id} |-> properties[i]]
              /\ storeCalls' = <<Call("findById"), Call("findOneAndDelete")>>
              /\ response' = Success("deleteProperty", 200, Empty)

\* propertySchema.methods.incrementViews, up to the call of save(): the
\* document in memory counts one more view.
IncrementViews(doc) == Assign(doc, [views |-> doc.views + 1])

\* GET /api/v1/properties/:id.  The save started by incrementViews is left
\* to settle on its own; the response is sent at once, from the document in
\* memory.
getProperty(id) ==
    /\ request' = [op |-> "getProperty", id |-> id]
    /\ crawl' = NoCrawl
    /\ UNCHANGED <<propVars, contactVars, now, errorLog, envVars, serviceVars>>
    /\ IF id \notin DOMAIN properties
         THEN /\ storeCalls' = <<Call("findById")>>
              /\ response' = Failure("getProperty", 404, "NOT_FOUND")
              /\ UNCHANGED <<saves, nextRid>>
         ELSE LET property == IncrementViews(properties[id])
              IN /\ saves' = saves \cup {[rid |-> nextRid, id |-> id, doc |-> property]}
                 /\ nextRid' = nextRid + 1
                 /\ storeCalls' = <<Call("findById")>>
                 /\ response' = Success("getProperty", 200,
                                        [id |-> id, views |-> property.views])

\* The paths of a loaded document that save() writes: views, and
\* priceFormatted when the save hook has changed it.
ModifiedPaths(loaded, saved) ==
    Assign([views |-> saved.views],
           IF Has(saved, "priceFormatted")
                 /\ (Has(loaded, "priceFormatted") =>
                        loaded.priceFormatted # saved.priceFormatted)
             THEN [priceFormatted |-> saved.priceFormatted]
             ELSE Empty)

\* A save settled, mutated: its failure is answered with an error response.
saveViewsAnswersFailure(s, storeOk) ==
    /\ s \in saves
    /\ saves' = saves \ {s}
    /\ UNCHANGED <<nextPid, contactVars, now, request, crawl, nextRid, envVars, serviceVars>>
    /\ IF storeOk /\ ValidPropertyDoc(s.doc) /\ s.id \in DOMAIN properties
         THEN /\ properties' = [properties EXCEPT ![s.id] =
                                  Assign(@, ModifiedPaths(s.doc, PropertyPreSave(s.doc)))]
              /\ UNCHANGED <<errorLog, response, storeCalls>>
         ELSE /\ errorLog' = errorLog \cup {s.rid}
              /\ UNCHANGED storeCalls
              /\ response' = Failure("getProperty", 500, "INTERNAL_ERROR")
              /\ UNCHANGED properties

\* A save settled, mutated: the counter is incremented in the store ($inc)
\* instead of being overwritten with the count held in memory.
saveViewsAtomic(s, storeOk) ==
    /\ s \in saves
    /\ saves' = saves \ {s}
    /\ UNCHANGED <<nextPid, contactVars, now, response, request, crawl, nextRid,
                   storeCalls, envVars, serviceVars>>
    /\ IF storeOk /\ ValidPropertyDoc(s.doc) /\ s.id \in DOMAIN properties
         THEN /\ properties' = [properties EXCEPT ![s.id] =
                                  Assign(@, [views |-> @.views + 1])]
              /\ UNCHANGED errorLog
         ELSE /\ errorLog' = errorLog \cup {s.rid}
              /\ UNCHANGED properties

\* The save() of incrementViews settles: validation of the document in
\* memory, the save hook, then a $set of the modified paths on the stored
\* document.  A rejection (validation, document gone, store error) reaches
\* only the .catch of getProperty, which logs it.
saveViews(s, storeOk) ==
    /\ s \in saves
    /\ saves' = saves \ {s}
    /\ UNCHANGED <<nextPid, contactVars, now, response, request, crawl, nextRid,
                   storeCalls, envVars, serviceVars>>
    /\ IF storeOk /\ ValidPropertyDoc(s.doc) /\ s.id \in DOMAIN properties
         THEN /\ properties' = [properties EXCEPT ![s.id] =
                                  Assign(@, ModifiedPaths(s.doc, PropertyPreSave(s.doc)))]
              /\ UNCHANGED errorLog
         ELSE /\ errorLog' = errorLog \cup {s.rid}
              /\ UNCHANGED properties

\* Time passes between two requests.
Tick ==
    /\ now < MaxTime
    /\ now' = now + 1
    /\ UNCHANGED <<propVars, contactVars, response, request, crawl, viewVars,
                   storeCalls, envVars, serviceVars>>

(***************************************************************************)
(* Case folding, trimming and substring search.                            *)
(***************************************************************************)
UpperChars == <<"A", "B", "C", "D", "E", "F", "G", "H", "I", "J", "K", "L", "M", "N", "O", "P", "Q", "R", "S", "T", "U", "V", "W", "X", "Y", "Z">>

LowerChars == <<"a", "b", "c", "d", "e", "f", "g", "h", "i", "j", "k", "l", "m", "n", "o", "p", "q", "r", "s", "t", "u", "v", "w", "x", "y", "z">>

LowerOf ==
    [c \in {UpperChars[i] : i \in 1..Len(UpperChars)} |->
       LowerChars[CHOOSE i \in 1..Len(UpperChars) : UpperChars[i] = c]]

LowerChar(c) == IF c \in DOMAIN LowerOf THEN LowerOf[c] ELSE c

\* String.prototype.toLowerCase
RECURSIVE ToLowerCase(_)
ToLowerCase(s) ==
    IF Len(s) = 0 THEN <<>> ELSE <<LowerChar(Head(s))>> \o ToLowerCase(Tail(s))

\* String.prototype.includes
Includes(s, k) ==
    \E text \in {s} :
       \E i \in 1..(Len(text) - Len(k) + 1) : SubSeq(text, i, i + Len(k) - 1) = k

\* trim(): leading and trailing blanks removed.
RECURSIVE Trim(_)
Trim(s) ==
    IF Len(s) > 0 /\ s[1] = " " THEN Trim(Tail(s))
    ELSE IF Len(s) > 0 /\ s[Len(s)] = " " THEN Trim(SubSeq(s, 1, Len(s) - 1))
    ELSE s

Range(s) == {s[i] : i \in 1..Len(s)}

\* [...new Set(s)]: the first occurrence of each element, in order.
RECURSIVE Unique(_)
Unique(s) ==
    IF Len(s) = 0 THEN <<>>
    ELSE LET init == Unique(SubSeq(s, 1, Len(s) - 1))
         IN IF s[Len(s)] \in Range(init) THEN init ELSE Append(init, s[Len(s)])

(***************************************************************************)
(* Query-string values: express hands every query parameter over as text.  *)
(***************************************************************************)
IsSign(c) == c = "+" \/ c = "-"

Unsigned(s) == IF Len(s) > 0 /\ IsSign(s[1]) THEN Tail(s) ELSE s

\* validator.js isInt, leading zeroes allowed: /^[-+]?[0-9]+$/
IsIntString(s) ==
    LET d == Unsigned(s)
    IN Len(d) > 0 /\ \A i \in 1..Len(d) : IsDigit(d[i])

\* validator.js isNumeric: /^[+-]?([0-9]*[.])?[0-9]+$/
IsNumericString(s) ==
    LET d == Unsigned(s)
    IN /\ Len(d) > 0
       /\ \A i \in 1..Len(d) : IsDigit(d[i]) \/ d[i] = "."
       /\ Cardinality({i \in 1..Len(d) : d[i] = "."}) <= 1
       /\ IsDigit(d[Len(d)])

RECURSIVE LeadingDigits(_)
LeadingDigits(s) ==
    IF Len(s) > 0 /\ IsDigit(s[1]) THEN <<s[1]>> \o LeadingDigits(Tail(s)) ELSE <<>>

RECURSIVE DigitsValue(_)
DigitsValue(d) ==
    IF Len(d) = 0 THEN 0
    ELSE 10 * DigitsValue(SubSeq(d, 1, Len(d) - 1)) + DigitVal(d[Len(d)])

\* parseInt(s): an optional sign, then the longest run of digits; NaN when
\* there is no digit.
ParseInt(s) ==
    LET d == LeadingDigits(Unsigned(s))
    IN IF Len(d) = 0 THEN "NaN"
       ELSE IF s[1] = "-" THEN 0 - DigitsValue(d) ELSE DigitsValue(d)

\* parseFloat(s) of a whole-number literal.  The model's arithmetic is on
\* integers: a literal with a fraction has no value here.
ParseFloat(s) ==
    IF \E i \in 1..Len(s) : s[i] = "." THEN "fraction" ELSE ParseInt(s)

(***************************************************************************)
(* { $regex: p, $options: 'i' } as the store evaluates it.  Covered syntax: *)
(* ordinary characters, '.', a postfix '*' on a character or '.', and      *)
(* parentheses that only group (a repeated group is not covered).          *)
(***************************************************************************)
RECURSIVE ParenDepth(_, _)
\* The nesting depth after reading p from depth d; "unbalanced" when a ')'
\* closes nothing.
ParenDepth(p, d) ==
    IF Len(p) = 0 THEN d
    ELSE IF Head(p) = "(" THEN ParenDepth(Tail(p), d + 1)
    ELSE IF Head(p) = ")"
      THEN (IF d = 0 THEN "unbalanced" ELSE ParenDepth(Tail(p), d - 1))
    ELSE ParenDepth(Tail(p), d)

\* Whether the pattern compiles: parentheses balance and every '*' follows
\* something it can repeat.
RegexValid(p) ==
    /\ ParenDepth(p, 0) = 0
    /\ \A i \in 1..Len(p) :
          p[i] = "*" => i > 1 /\ p[i - 1] \notin {"*", "("}

InvalidRegexError ==
    [name |-> "MongoServerError", code |-> "51091",
     message |-> "Regular expression is invalid: missing closing parenthesis",
     stack |-> "MongoServerError: Regular expression is invalid"]

IsParen(c) == c \in {"(", ")"}

RegexCharMatches(pc, c) == pc = "." \/ LowerChar(pc) = LowerChar(c)

RECURSIVE MatchHere(_, _)
RECURSIVE MatchStar(_, _, _)
\* Whether pattern p matches a prefix of text t.
MatchHere(p, t) ==
    IF Len(p) = 0 THEN TRUE
    ELSE IF Len(p) >= 2 /\ p[2] = "*" THEN MatchStar(p[1], Tail(Tail(p)), t)
    ELSE /\ Len(t) > 0
         /\ RegexCharMatches(p[1], t[1])
         /\ MatchHere(Tail(p), Tail(t))

\* c* followed by p, at the start of t.
MatchStar(c, p, t) ==
    \/ MatchHere(p, t)
    \/ /\ Len(t) > 0
       /\ RegexCharMatches(c, t[1])
       /\ MatchStar(c, p, Tail(t))

\* Whether the field value has a match of the pattern anywhere in it.
RegexTest(pattern, value) ==
    \E p \in {SelectSeq(pattern, LAMBDA c : ~IsParen(c))}, t \in {value} :
       \E i \in 0..Len(t) : MatchHere(p, SubSeq(t, i + 1, Len(t)))

LocationMinLength == 1

LocationMaxLength == 200

\* validatePropertyQuery: the chain of GET /properties.
ValidatePropertyQuery(q) ==
    /\ Has(q, "type") => q.type \in PropertyTypes
    /\ Has(q, "category") => q.category \in Categories
    /\ Has(q, "minPrice") => IsNumericString(q.minPrice) /\ ParseFloat(q.minPrice) >= 0
    /\ Has(q, "maxPrice") => IsNumericString(q.maxPrice) /\ ParseFloat(q.maxPrice) >= 0
    /\ Has(q, "page") => IsIntString(q.page) /\ ParseInt(q.page) >= 1
    /\ Has(q, "limit") => /\ IsIntString(q.limit)
                          /\ ParseInt(q.limit) >= 1
                          /\ ParseInt(q.limit) <= 100
    /\ Has(q, "location") => /\ Len(Trim(q.location)) >= LocationMinLength
                             /\ Len(Trim(q.location)) <= LocationMaxLength

\* The query as the handler reads it: the chain's sanitizer has trimmed
\* location in place.
SanitizePropertyQuery(q) ==
    IF Has(q, "location") THEN Assign(q, [location |-> Trim(q.location)]) ELSE q

(***************************************************************************)
(* getProperties: the filter, the sort, the window and the page object.    *)
(***************************************************************************)
DefaultPage == 1

DefaultLimit == 10

DefaultSort == <<"-", "c", "r", "e", "a", "t", "e", "d", "A", "t">>

CreatedAtField == <<"c", "r", "e", "a", "t", "e", "d", "A", "t">>

PriceField == <<"p", "r", "i", "c", "e">>

\* The fields of the location search ($or of three $regex tests).
LocationFields == {"location", "name", "description"}

\* PropertyFilter, mutated: the price range is attached only when both bounds
\* are given (minPrice && maxPrice).
PropertyFilterBothBounds(q) ==
    LET both == /\ Has(q, "minPrice") /\ Len(q.minPrice) > 0
                /\ Has(q, "maxPrice") /\ Len(q.maxPrice) > 0
    IN Assign(Assign(Assign(Assign(Assign(
         [status |-> Get(q, "status", "Available")],
         IF Has(q, "type") /\ q.type # "" THEN [type |-> q.type] ELSE Empty),
         IF Has(q, "category") /\ q.category # "" THEN [category |-> q.category] ELSE Empty),
         IF Has(q, "featured") THEN [featured |-> (q.featured = "true")] ELSE Empty),
         IF both THEN [price |-> [gte |-> ParseFloat(q.minPrice),
                                  lte |-> ParseFloat(q.maxPrice)]] ELSE Empty),
         IF Has(q, "location") /\ Len(q.location) > 0
           THEN [or |-> [regex |-> q.location, fields |-> LocationFields]] ELSE Empty)

\* The filter object built from the query parameters ($gte, $lte: gte, lte).
PropertyFilter(q) ==
    LET useMin == Has(q, "minPrice") /\ Len(q.minPrice) > 0
        useMax == Has(q, "maxPrice") /\ Len(q.maxPrice) > 0
        range == Assign(IF useMin THEN [gte |-> ParseFloat(q.minPrice)] ELSE Empty,
                        IF useMax THEN [lte |-> ParseFloat(q.maxPrice)] ELSE Empty)
    IN Assign(Assign(Assign(Assign(Assign(
         [status |-> Get(q, "status", "Available")],
         IF Has(q, "type") /\ q.type # "" THEN [type |-> q.type] ELSE Empty),
         IF Has(q, "category") /\ q.category # "" THEN [category |-> q.category] ELSE Empty),
         IF Has(q, "featured") THEN [featured |-> (q.featured = "true")] ELSE Empty),
         IF useMin \/ useMax THEN [price |-> range] ELSE Empty),
         IF Has(q, "location") /\ Len(q.location) > 0
           THEN [or |-> [regex |-> q.location, fields |-> LocationFields]] ELSE Empty)

\* Whether a stored document satisfies a filter object.
Matches(doc, f) ==
    /\ Has(f, "status") => doc.status = f.status
    /\ Has(f, "type") => doc.type = f.type
    /\ Has(f, "category") => doc.category = f.category
    /\ Has(f, "featured") => doc.featured = f.featured
    /\ Has(f, "price") =>
          /\ Has(f.price, "gte") => doc.price >= f.price.gte
          /\ Has(f.price, "lte") => doc.price <= f.price.lte
    /\ Has(f, "or") =>
          \E field \in f.or.fields : RegexTest(f.or.regex, Get(doc, field, <<>>))

\* Property.find(filter) / Property.countDocuments(filter)
Find(f) == {id \in DOMAIN properties : Matches(properties[id], f)}

CountDocuments(f) == Cardinality(Find(f))

\* .sort('-field'): a leading "-" sorts descending.
SortDescending(sort) == Len(sort) > 0 /\ sort[1] = "-"

SortField(sort) == IF SortDescending(sort) THEN Tail(sort) ELSE sort

SortKey(doc, field) ==
    IF field = CreatedAtField THEN doc.createdAt
    ELSE IF field = PriceField THEN doc.price
    ELSE 0

\* a is ordered strictly before b by the sort.
Before(a, b, sort) ==
    LET ka == SortKey(properties[a], SortField(sort))
        kb == SortKey(properties[b], SortField(sort))
    IN IF SortDescending(sort) THEN ka > kb ELSE ka < kb

\* The first n documents of every order the store may return: sorted by the
\* sort key, documents with equal keys in any order (the sort names no
\* tie-breaker and the store promises none).
RECURSIVE Orders(_, _, _)
Orders(ids, sort, n) ==
    IF ids = {} \/ n <= 0 THEN {<<>>}
    ELSE UNION { { <<x>> \o t : t \in Orders(ids \ {x}, sort, n - 1) } :
                 x \in {x \in ids : \A y \in ids : ~Before(y, x, sort)} }

\* .skip(skip): the sets of documents the store may pass over, the first
\* `skip` documents of one of its orders.
Skipped(ids, sort, skip) ==
    { S \in SUBSET ids :
        /\ Cardinality(S) = Min(skip, Cardinality(ids))
        /\ \A x \in S, y \in ids \ S : ~Before(y, x, sort) }

\* .sort(sort).skip(skip).limit(limit): every page the store may return.
Windows(ids, sort, skip, limit) ==
    UNION { Orders(ids \ S, sort, limit) : S \in Skipped(ids, sort, skip) }

\* Math.ceil(a / b) for a >= 0, b > 0
Ceil(a, b) == IF a % b = 0 THEN a \div b ELSE (a \div b) + 1

\* Pagination, mutated: Math.floor in place of Math.ceil.
PaginationFloor(pageNum, limitNum, totalItems) ==
    LET totalPages == totalItems \div limitNum
    IN [currentPage |-> pageNum,
        totalPages |-> totalPages,
        totalItems |-> totalItems,
        itemsPerPage |-> limitNum,
        hasNextPage |-> pageNum < totalPages,
        hasPreviousPage |-> pageNum > 1]

\* Pagination, mutated: hasNextPage compares with <=.
PaginationNextInclusive(pageNum, limitNum, totalItems) ==
    LET totalPages == Ceil(totalItems, limitNum)
    IN [currentPage |-> pageNum,
        totalPages |-> totalPages,
        totalItems |-> totalItems,
        itemsPerPage |-> limitNum,
        hasNextPage |-> pageNum <= totalPages,
        hasPreviousPage |-> pageNum > 1]

\* The pagination object (the same lines in getProperties and searchProperties).
Pagination(pageNum, limitNum, totalItems) ==
    LET totalPages == Ceil(totalItems, limitNum)
    IN [currentPage |-> pageNum,
        totalPages |-> totalPages,
        totalItems |-> totalItems,
        itemsPerPage |-> limitNum,
        hasNextPage |-> pageNum < totalPages,
        hasPreviousPage |-> pageNum > 1]

\* The query of a crawl: everything but the page number.
CrawlQuery(q) == [k \in (DOMAIN q) \ {"page"} |-> q[k]]

\* How often each listing was returned over the pages collected so far.
Tally(seen, page) ==
    LET ids == (DOMAIN seen) \cup {page[i] : i \in 1..Len(page)}
    IN [id \in ids |-> Get(seen, id, 0) + Cardinality({i \in 1..Len(page) : page[i] = id})]

\* The pages a client has collected by asking for page 1, 2, ... of one query
\* while no write happened in between.
CrawlAfter(q, pageNum, page) ==
    IF pageNum = 1
      THEN [active |-> TRUE, query |-> CrawlQuery(q), pages |-> 1,
            seen |-> Tally(Empty, page)]
    ELSE IF crawl.active /\ crawl.query = CrawlQuery(q) /\ pageNum = crawl.pages + 1
      THEN [active |-> TRUE, query |-> crawl.query, pages |-> pageNum,
            seen |-> Tally(crawl.seen, page)]
    ELSE NoCrawl

\* GET /api/v1/properties
getProperties(q) ==
    /\ request' = [op |-> "getProperties", query |-> q]
    /\ UNCHANGED <<propVars, contactVars, now, viewVars, envVars, serviceVars>>
    /\ IF ~ValidatePropertyQuery(q)
         THEN /\ storeCalls' = <<>>
              /\ response' = Failure("getProperties", 400, "VALIDATION_ERROR")
              /\ crawl' = NoCrawl
         ELSE LET query == SanitizePropertyQuery(q)
                  filter == PropertyFilter(query)
                  pageNum == IF Has(q, "page") THEN ParseInt(q.page) ELSE DefaultPage
                  limitNum == IF Has(q, "limit") THEN ParseInt(q.limit) ELSE DefaultLimit
                  skip == (pageNum - 1) * limitNum
                  sort == Get(q, "sort", DefaultSort)
              IN IF Has(filter, "or") /\ ~RegexValid(filter.or.regex)
                   THEN /\ storeCalls' = <<FindCall(skip, limitNum)>>
                        /\ response' = ErrorHandler("getProperties",
                                                    InvalidRegexError, nodeEnv)
                        /\ crawl' = NoCrawl
                   ELSE \E page \in Windows(Find(filter), sort, skip, limitNum) :
                          /\ storeCalls' = <<FindCall(skip, limitNum),
                                             Call("countDocuments")>>
                          /\ response' = Success("getProperties", 200,
                                 [properties |-> page,
                                  pagination |-> Pagination(pageNum, limitNum,
                                                            CountDocuments(filter))])
                          /\ crawl' = CrawlAfter(q, pageNum, page)

(***************************************************************************)
(* searchProperties: the text index, the score order and the handler.      *)
(* The text index is modelled on whole words, compared without case; the   *)
(* store's stemming and stop words are left out, and the relevance score   *)
(* is the number of indexed words a search term equals.                    *)
(***************************************************************************)
IsWordChar(c) ==
    IsDigit(c) \/ c \in Range(UpperChars) \/ c \in Range(LowerChars)

\* The words of a text: maximal runs of letters and digits, in lower case.
RECURSIVE SplitWords(_, _)
SplitWords(s, word) ==
    IF Len(s) = 0 THEN (IF Len(word) = 0 THEN <<>> ELSE <<word>>)
    ELSE IF IsWordChar(Head(s)) THEN SplitWords(Tail(s), Append(word, Head(s)))
    ELSE (IF Len(word) = 0 THEN <<>> ELSE <<word>>) \o SplitWords(Tail(s), <<>>)

Words(s) == SplitWords(ToLowerCase(s), <<>>)

\* The text index on location, name and description.
IndexedWords(doc) ==
    Words(Get(doc, "location", <<>>)) \o Words(doc.name)
    \o Words(Get(doc, "description", <<>>))

\* { $meta: 'textScore' } of a document for { $text: { $search: q } }
TextScore(doc, q) ==
    CHOOSE n \in { Cardinality({i \in 1..Len(words) : words[i] \in terms}) :
                     words \in {IndexedWords(doc)}, terms \in {Range(Words(q))} } : TRUE

\* The search predicate, mutated: the status is not looked at.
SearchFindAnyStatus(q) ==
    {id \in DOMAIN properties : TextScore(properties[id], q) > 0}

\* Property.find / countDocuments({ $text: { $search: q }, status: 'Available' })
SearchFind(q) ==
    {id \in DOMAIN properties :
        /\ properties[id].status = "Available"
        /\ TextScore(properties[id], q) > 0}

\* a is ordered strictly before b by .sort({ score: { $meta: 'textScore' } }).
ScoreBefore(a, b, q) == TextScore(properties[a], q) > TextScore(properties[b], q)

\* The first n documents of every order the store may return by score.
RECURSIVE ScoreOrders(_, _, _)
ScoreOrders(ids, q, n) ==
    IF ids = {} \/ n <= 0 THEN {<<>>}
    ELSE UNION { { <<x>> \o t : t \in ScoreOrders(ids \ {x}, q, n - 1) } :
                 x \in {x \in ids : \A y \in ids : ~ScoreBefore(y, x, q)} }

ScoreSkipped(ids, q, skip) ==
    { S \in SUBSET ids :
        /\ Cardinality(S) = Min(skip, Cardinality(ids))
        /\ \A x \in S, y \in ids \ S : ~ScoreBefore(y, x, q) }

\* .sort(score).skip(skip).limit(limit): every page the store may return.
ScoreWindows(ids, q, skip, limit) ==
    UNION { ScoreOrders(ids \ S, q, limit) : S \in ScoreSkipped(ids, q, skip) }

\* The error of the store for a find with a negative skip.
NegativeSkipError ==
    [name |-> "MongoServerError", code |-> "51024",
     message |-> "BSON field 'skip' value must be >= 0",
     stack |-> "MongoServerError: BSON field 'skip' value must be >= 0 at ..."]

\* GET /api/v1/properties/search: the route runs no validation chain.
searchProperties(query) ==
    /\ request' = [op |-> "searchProperties", query |-> query]
    /\ crawl' = NoCrawl
    /\ UNCHANGED <<propVars, contactVars, now, viewVars, envVars, serviceVars>>
    /\ IF ~Has(query, "q") \/ Len(query.q) = 0
         THEN /\ storeCalls' = <<>>
              /\ response' = Failure("searchProperties", 400, "VALIDATION_ERROR")
         ELSE LET pageNum == IF Has(query, "page") THEN ParseInt(query.page)
                             ELSE DefaultPage
                  limitNum == IF Has(query, "limit") THEN ParseInt(query.limit)
                              ELSE DefaultLimit
                  skip == (pageNum - 1) * limitNum
              IN IF skip < 0
                   THEN /\ storeCalls' = <<FindCall(skip, limitNum)>>
                        /\ response' = ErrorHandler("searchProperties",
                                                    NegativeSkipError, nodeEnv)
                   ELSE \E page \in ScoreWindows(SearchFind(query.q), query.q,
                                                 skip, limitNum) :
                          /\ storeCalls' = <<FindCall(skip, limitNum),
                                             Call("countDocuments")>>
                          /\ response' = Success("searchProperties", 200,
                                 [properties |-> page,
                                  pagination |-> Pagination(pageNum, limitNum,
                                                    Cardinality(SearchFind(query.q))),
                                  searchQuery |-> query.q])

(***************************************************************************)
(* Service schema and the formattedPrice virtual.                          *)
(***************************************************************************)
ServiceCategories ==
    {"Property Services", "Financial Services", "Legal Services", "Consultation"}

PriceTypes == {"free", "fixed", "hourly", "percentage", "consultation"}

\* The fields of the Service schema the model keeps; metadata.views is kept
\* as views, metadata.inquiries as inquiries.
ServicePaths == {"title", "category", "price", "priceType", "active", "featured",
                 "order", "views", "inquiries"}

ServiceDefaults ==
    [category |-> "Property Services", price |-> 0, priceType |-> "consultation",
     active |-> TRUE, featured |-> FALSE, order |-> 0, views |-> 0, inquiries |-> 0]

\* Document validation of the Service schema on the given paths.
ValidServicePaths(doc, paths) ==
    /\ "title" \in paths => Has(doc, "title")
    /\ ("category" \in paths /\ Has(doc, "category")) => doc.category \in ServiceCategories
    /\ ("price" \in paths /\ Has(doc, "price")) => doc.price >= 0
    /\ ("priceType" \in paths /\ Has(doc, "priceType")) => doc.priceType \in PriceTypes

TextFree == <<"F", "r", "e", "e">>

TextContactForPricing ==
    <<"C", "o", "n", "t", "a", "c", "t", " ", "f", "o", "r", " ",
      "p", "r", "i", "c", "i", "n", "g">>

TextPerHour == <<"/", "h", "o", "u", "r">>

\* formattedPrice, mutated: the zero amount is tested before the mode.
FormattedPriceZeroFirst(doc) ==
    IF doc.price = 0 THEN TextContactForPricing
    ELSE IF doc.priceType = "free" THEN TextFree
    ELSE IF doc.priceType = "consultation" THEN TextContactForPricing
    ELSE LET formatted == FormatUSD(doc.price)
         IN CASE doc.priceType = "hourly" -> formatted \o TextPerHour
              [] doc.priceType = "percentage" -> Digits(doc.price) \o <<"%">>
              [] OTHER -> formatted

\* serviceSchema.virtual('formattedPrice'), for whole amounts.
FormattedPrice(doc) ==
    IF doc.priceType = "free" THEN TextFree
    ELSE IF doc.priceType = "consultation" THEN TextContactForPricing
    ELSE IF doc.price = 0 THEN TextContactForPricing
    ELSE LET formatted == FormatUSD(doc.price)
         IN CASE doc.priceType = "hourly" -> formatted \o TextPerHour
              [] doc.priceType = "percentage" -> Digits(doc.price) \o <<"%">>
              [] OTHER -> formatted

\* toJSON({ virtuals: true }): what a response shows of a service.
ServiceJSON(id, doc) ==
    [id |-> id, priceType |-> doc.priceType, price |-> doc.price,
     formattedPrice |-> FormattedPrice(doc), views |-> doc.views]

(***************************************************************************)
(* Service handlers.                                                       *)
(***************************************************************************)
\* POST /api/v1/services: Service.create(req.body); a document that fails
\* validation reaches the error handler as a ValidationError.
createService(body) ==
    /\ request' = [op |-> "createService"]
    /\ crawl' = NoCrawl
    /\ UNCHANGED <<propVars, contactVars, now, viewVars, envVars, serviceSaves>>
    /\ LET doc == Assign(ServiceDefaults, Strict(body, ServicePaths))
       IN IF ~ValidServicePaths(doc, ServicePaths)
            THEN /\ storeCalls' = <<>>
                 /\ response' = ErrorHandler("createService",
                        [name |-> "ValidationError",
                         message |-> "Service validation failed",
                         errors |-> "title",
                         stack |-> "ValidationError: Service validation failed"],
                        nodeEnv)
                 /\ UNCHANGED <<services, nextSid>>
            ELSE /\ services' = (nextSid :> doc) @@ services
                 /\ nextSid' = nextSid + 1
                 /\ storeCalls' = <<Call("insertOne")>>
                 /\ response' = Success("createService", 201, ServiceJSON(nextSid, doc))

\* GET /api/v1/services/:id
getService(id) ==
    /\ request' = [op |-> "getService", id |-> id]
    /\ crawl' = NoCrawl
    /\ storeCalls' = <<Call("findById")>>
    /\ UNCHANGED <<propVars, contactVars, now, saves, errorLog, envVars,
                   services, nextSid>>
    /\ IF id \notin DOMAIN services \/ ~services[id].active
         THEN /\ response' = Failure("getService", 404, "NOT_FOUND")
              /\ UNCHANGED <<nextRid, serviceSaves>>
         ELSE LET service == IncrementViews(services[id])
              IN /\ serviceSaves' = serviceSaves \cup
                        {[rid |-> nextRid, id |-> id, doc |-> service]}
                 /\ nextRid' = nextRid + 1
                 /\ response' = Success("getService", 200, ServiceJSON(id, service))

\* The save() of Service incrementViews settles; a rejection reaches only
\* the .catch of getService, which logs it.
saveServiceViews(s, storeOk) ==
    /\ s \in serviceSaves
    /\ serviceSaves' = serviceSaves \ {s}
    /\ UNCHANGED <<propVars, contactVars, now, response, request, crawl, saves,
                   nextRid, storeCalls, envVars, nextSid>>
    /\ IF storeOk /\ ValidServicePaths(s.doc, ServicePaths) /\ s.id \in DOMAIN services
         THEN /\ services' = [services EXCEPT ![s.id] =
                                Assign(@, [views |-> s.doc.views])]
              /\ UNCHANGED errorLog
         ELSE /\ errorLog' = errorLog \cup {s.rid}
              /\ UNCHANGED services

\* PUT /api/v1/services/:id
updateService(id, body) ==
    /\ request' = [op |-> "updateService", id |-> id]
    /\ crawl' = NoCrawl
    /\ UNCHANGED <<propVars, contactVars, now, viewVars, envVars, nextSid, serviceSaves>>
    /\ IF id \notin DOMAIN services
         THEN /\ storeCalls' = <<Call("findById")>>
              /\ response' = Failure("updateService", 404, "NOT_FOUND")
              /\ UNCHANGED services
         ELSE IF ~ValidServicePaths(body, DOMAIN body)
           THEN /\ storeCalls' = <<Call("findById"), Call("findOneAndUpdate")>>
                /\ response' = ErrorHandler("updateService",
                       [name |-> "ValidationError",
                        message |-> "Validation failed",
                        errors |-> "price",
                        stack |-> "ValidationError: Validation failed"],
                       nodeEnv)
                /\ UNCHANGED services
           ELSE LET updated == Assign(services[id], Strict(body, ServicePaths))
                IN /\ services' = [services EXCEPT ![id] = updated]
                   /\ storeCalls' = <<Call("findById"), Call("findOneAndUpdate")>>
                   /\ response' = Success("updateService", 200, ServiceJSON(id, updated))

\* DELETE /api/v1/services/:id
deleteService(id) ==
    /\ request' = [op |-> "deleteService", id |-> id]
    /\ crawl' = NoCrawl
    /\ UNCHANGED <<propVars, contactVars, now, viewVars, envVars, nextSid, serviceSaves>>
    /\ IF id \notin DOMAIN services
         THEN /\ storeCalls' = <<Call("findById")>>
              /\ response' = Failure("deleteService", 404, "NOT_FOUND")
              /\ UNCHANGED services
         ELSE /\ services' = [i \in (DOMAIN services) \ {id} |-> services[i]]
              /\ storeCalls' = <<Call("findById"), Call("findOneAndDelete")>>
              /\ response' = Success("deleteService", 200, [id |-> id])

(***************************************************************************)
(* Service listings.                                                       *)
(***************************************************************************)
\* a is ordered strictly before b by .sort(keys); keys is a sequence of
\* <<field, direction>>, the first the most significant.  A boolean sorts
\* false before true.
ServiceSortValue(doc, field) ==
    IF field = "featured" THEN (IF doc.featured THEN 1 ELSE 0) ELSE doc[field]

RECURSIVE ServiceBefore(_, _, _)
ServiceBefore(a, b, keys) ==
    IF Len(keys) = 0 THEN FALSE
    ELSE LET ka == ServiceSortValue(services[a], keys[1][1]) * keys[1][2]
             kb == ServiceSortValue(services[b], keys[1][1]) * keys[1][2]
         IN IF ka # kb THEN ka < kb ELSE ServiceBefore(a, b, Tail(keys))

\* The first n services of every order the store may return for the sort.
RECURSIVE ServiceOrders(_, _, _)
ServiceOrders(ids, keys, n) ==
    IF ids = {} \/ n <= 0 THEN {<<>>}
    ELSE UNION { { <<x>> \o t : t \in ServiceOrders(ids \ {x}, keys, n - 1) } :
                 x \in {x \in ids : \A y \in ids : ~ServiceBefore(y, x, keys)} }

\* Every order the store may return all of the services in.
ServiceSorted(ids, keys) == ServiceOrders(ids, keys, Cardinality(ids))

\* { featured: -1, order: 1 }
SortFeaturedThenOrder == << <<"featured", -1>>, <<"order", 1>> >>

\* { order: 1 }
SortOrder == << <<"order", 1>> >>

\* Service.find(filter), the filter a record of required field values.
ServiceFind(filter) ==
    {id \in DOMAIN services :
        \A k \in DOMAIN filter : services[id][k] = filter[k]}

\* The filter object getServices builds from the query string.
ServiceFilter(query) ==
    Assign(Assign(
      [active |-> (Get(query, "active", "true") = "true")],
      IF Has(query, "category") /\ query.category # ""
        THEN [category |-> query.category] ELSE Empty),
      IF Has(query, "featured") THEN [featured |-> (query.featured = "true")] ELSE Empty)

\* GET /api/v1/services
getServices(query) ==
    /\ request' = [op |-> "getServices", query |-> query]
    /\ crawl' = NoCrawl
    /\ storeCalls' = <<Call("find")>>
    /\ UNCHANGED <<propVars, contactVars, now, viewVars, envVars, serviceVars>>
    /\ \E list \in ServiceSorted(ServiceFind(ServiceFilter(query)),
                                 SortFeaturedThenOrder) :
          response' = Success("getServices", 200, [services |-> list])

\* Service.getActiveServices()
getActiveServices ==
    /\ request' = [op |-> "getActiveServices"]
    /\ crawl' = NoCrawl
    /\ storeCalls' = <<Call("find")>>
    /\ UNCHANGED <<propVars, contactVars, now, viewVars, envVars, serviceVars>>
    /\ \E list \in ServiceSorted(ServiceFind([active |-> TRUE]),
                                 SortFeaturedThenOrder) :
          response' = Success("getActiveServices", 200, [services |-> list])

\* Service.getByCategory(category)
GetByCategory(category) ==
    ServiceSorted(ServiceFind([category |-> category, active |-> TRUE]), SortOrder)

\* GET /api/v1/services/category/:category
getServicesByCategory(category) ==
    /\ request' = [op |-> "getServicesByCategory", category |-> category]
    /\ crawl' = NoCrawl
    /\ storeCalls' = <<Call("find")>>
    /\ UNCHANGED <<propVars, contactVars, now, viewVars, envVars, serviceVars>>
    /\ \E list \in GetByCategory(category) :
          response' = Success("getServicesByCategory", 200,
                              [services |-> list, category |-> category])

DefaultFeaturedLimit == 4

\* GET /api/v1/services/featured, for a limit that parses to a positive
\* number.
getFeaturedServices(query) ==
    /\ request' = [op |-> "getFeaturedServices", query |-> query]
    /\ crawl' = NoCrawl
    /\ storeCalls' = <<Call("find")>>
    /\ UNCHANGED <<propVars, contactVars, now, viewVars, envVars, serviceVars>>
    /\ LET limitNum == IF Has(query, "limit") THEN ParseInt(query.limit)
                       ELSE DefaultFeaturedLimit
       IN \E list \in ServiceOrders(ServiceFind([featured |-> TRUE, active |-> TRUE]),
                                    SortOrder, limitNum) :
             response' = Success("getFeaturedServices", 200, [services |-> list])

(***************************************************************************)
(* Failures that do not come from a handler's own branches: the rate       *)
(* limiters, the auth middleware, the 404 handlers, the validation         *)
(* middleware, login, and errors thrown inside a handler.                  *)
(***************************************************************************)
\* RATE_LIMIT_MAX_REQUESTS, as configured for the run; the contact limiter
\* has its own fixed max.
RateLimitMax == 2

ContactLimitMax == 5

LimiterMax(name) == IF name = "limiter" THEN RateLimitMax ELSE ContactLimitMax

\* rateLimit(): the request is counted; over the max the limiter sends its
\* `message` option as the body, with status 429, and the request goes no
\* further.
rateLimit(name) ==
    /\ hits' = [hits EXCEPT ![name] = @ + 1]
    /\ request' = [op |-> name]
    /\ crawl' = NoCrawl
    /\ storeCalls' = <<>>
    /\ UNCHANGED <<propVars, contactVars, now, viewVars, nodeEnv, serviceVars, userVars,
                   inflight>>
    /\ IF hits[name] + 1 > LimiterMax(name)
         THEN response' = [op |-> name, success |-> FALSE, status |-> 429,
                           code |-> "RATE_LIMIT_EXCEEDED",
                           envelope |-> {"success", "error"},
                           errorKeys |-> {"code", "message"}]
         ELSE response' = NoResponse

\* The window of a limiter elapses.
resetLimiter(name) ==
    /\ hits[name] > 0
    /\ hits' = [hits EXCEPT ![name] = 0]
    /\ UNCHANGED <<propVars, contactVars, now, viewVars, nodeEnv, serviceVars,
                   request, response, crawl, storeCalls, userVars, inflight>>

\* What the Authorization header holds and what User.findById gives for
\* the token's user.
AuthHeaders == {"none", "valid", "malformed", "expired"}

UserLookups == {"admin", "agent", "inactive", "absent", "storeError"}

\* adminOnly, mutated: authenticate alone, without authorize('admin').
adminOnlyAnyRole(header, user) ==
    /\ request' = [op |-> "adminOnly", header |-> header, user |-> user]
    /\ crawl' = NoCrawl
    /\ UNCHANGED <<propVars, contactVars, now, viewVars, envVars, serviceVars>>
    /\ IF header = "none"
         THEN /\ storeCalls' = <<>>
              /\ response' = Failure("authenticate", 401, "UNAUTHORIZED")
       ELSE IF header \in {"malformed", "expired"}
         THEN /\ storeCalls' = <<>>
              /\ response' = Failure("authenticate", 401, "UNAUTHORIZED")
       ELSE /\ storeCalls' = <<Call("findById")>>
            /\ response' =
                 IF user = "storeError" THEN Failure("authenticate", 500, "INTERNAL_ERROR")
                 ELSE IF user \in {"absent", "inactive"}
                   THEN Failure("authenticate", 401, "UNAUTHORIZED")
                 ELSE NoResponse

\* adminOnly = [authenticate, authorize('admin')]
adminOnly(header, user) ==
    /\ request' = [op |-> "adminOnly", header |-> header, user |-> user]
    /\ crawl' = NoCrawl
    /\ UNCHANGED <<propVars, contactVars, now, viewVars, envVars, serviceVars>>
    /\ IF header = "none"
         THEN /\ storeCalls' = <<>>
              /\ response' = Failure("authenticate", 401, "UNAUTHORIZED")
       ELSE IF header \in {"malformed", "expired"}
         THEN /\ storeCalls' = <<>>
              /\ response' = Failure("authenticate", 401, "UNAUTHORIZED")
       ELSE /\ storeCalls' = <<Call("findById")>>
            /\ response' =
                 IF user = "storeError" THEN Failure("authenticate", 500, "INTERNAL_ERROR")
                 ELSE IF user \in {"absent", "inactive"}
                   THEN Failure("authenticate", 401, "UNAUTHORIZED")
                 ELSE IF user # "admin" THEN Failure("authorize", 403, "FORBIDDEN")
                 ELSE NoResponse

\* app.use('*'): no route matched.
routeNotFound ==
    /\ request' = [op |-> "routeNotFound"]
    /\ crawl' = NoCrawl
    /\ storeCalls' = <<>>
    /\ response' = Failure("routeNotFound", 404, "NOT_FOUND")
    /\ UNCHANGED <<propVars, contactVars, now, viewVars, envVars, serviceVars>>

\* The error the notFound middleware hands to the error handler.
NotFoundError ==
    [name |-> "Error", message |-> "Route not found", statusCode |-> 404,
     code |-> "NOT_FOUND", stack |-> "Error: Route not found"]

\* notFound
notFound ==
    /\ request' = [op |-> "notFound"]
    /\ crawl' = NoCrawl
    /\ storeCalls' = <<>>
    /\ response' = ErrorHandler("notFound", NotFoundError, nodeEnv)
    /\ UNCHANGED <<propVars, contactVars, now, viewVars, envVars, serviceVars>>

\* handleValidationErrors, with errors: the 400 body carries the details.
handleValidationErrors ==
    /\ request' = [op |-> "handleValidationErrors"]
    /\ crawl' = NoCrawl
    /\ storeCalls' = <<>>
    /\ response' = Assign([errorKeys |-> {"code", "message", "details"}],
                          Failure("handleValidationErrors", 400, "VALIDATION_ERROR"))
    /\ UNCHANGED <<propVars, contactVars, now, viewVars, envVars, serviceVars>>

\* Errors of the backing store: the server is unreachable (no code), or it
\* rejects the command with its numeric code.
NetworkError ==
    [name |-> "MongoNetworkError",
     message |-> "connect ECONNREFUSED 127.0.0.1:27017",
     stack |-> "MongoNetworkError: connect ECONNREFUSED 127.0.0.1:27017"]

TimeoutError ==
    [name |-> "MongoServerError", code |-> "50",
     message |-> "operation exceeded time limit",
     stack |-> "MongoServerError: operation exceeded time limit"]

StoreErrors == {NetworkError, TimeoutError, InvalidRegexError, NegativeSkipError}

\* Other errors a handler or a middleware in front of it may throw.
ThrownErrors ==
    { [name |-> "CastError", message |-> "Cast to ObjectId failed", stack |-> "CastError"],
      [name |-> "MongoServerError", code |-> "11000", message |-> "E11000 duplicate key",
       stack |-> "MongoServerError: E11000"],
      [name |-> "ValidationError", message |-> "Validation failed", errors |-> "errors",
       stack |-> "ValidationError"],
      [name |-> "JsonWebTokenError", message |-> "jwt malformed", stack |-> "JsonWebTokenError"],
      [name |-> "TokenExpiredError", message |-> "jwt expired", stack |-> "TokenExpiredError"],
      [name |-> "MulterError", code |-> "LIMIT_FILE_SIZE", message |-> "File too large",
       stack |-> "MulterError"],
      [name |-> "MulterError", code |-> "LIMIT_FILE_COUNT", message |-> "Too many files",
       stack |-> "MulterError"],
      [name |-> "MulterError", code |-> "LIMIT_UNEXPECTED_FILE", message |-> "Unexpected field",
       stack |-> "MulterError"],
      [name |-> "Error", status |-> 429, message |-> "Too many requests", stack |-> "Error"],
      [name |-> "Error", message |-> "", stack |-> "Error"] }

\* asyncHandler: the handler's promise rejects with err after its first call
\* on the store, and .catch(next) hands err to the error handler.
asyncHandlerCatches(op, err) ==
    /\ request' = [op |-> op, error |-> err]
    /\ crawl' = NoCrawl
    /\ storeCalls' = <<Call("find")>>
    /\ response' = ErrorHandler(op, err, nodeEnv)
    /\ UNCHANGED <<propVars, contactVars, now, viewVars, envVars, serviceVars>>

\* What User.findByCredentials gives.
LoginError == [name |-> "Error", message |-> "Invalid email or password", stack |-> "Error"]

\* POST /api/v1/auth/login: every error of findByCredentials, one of the
\* store included, is answered 401 with the error's own message.
login(outcome) ==
    /\ request' = [op |-> "login", error |-> outcome]
    /\ crawl' = NoCrawl
    /\ storeCalls' = <<Call("findOne")>>
    /\ UNCHANGED <<propVars, contactVars, now, viewVars, envVars, serviceVars>>
    /\ IF outcome = Empty
         THEN response' = Success("login", 200, [token |-> "token"])
         ELSE response' = Assign(Failure("login", 401, "UNAUTHORIZED"),
                                 [message |-> outcome.message])

(***************************************************************************)
(* Seed script.                                                            *)
(***************************************************************************)
SeedName1 == <<"M", "o", "d", "e", "r", "n", " ", "L", "u", "x", "u", "r", "y", " ", "V", "i", "l", "l", "a">>

SeedName2 == <<"D", "o", "w", "n", "t", "o", "w", "n", " ", "P", "e", "n", "t", "h", "o", "u", "s", "e">>

SeedName3 == <<"C", "o", "z", "y", " ", "F", "a", "m", "i", "l", "y", " ", "H", "o", "m", "e">>

SeedName4 == <<"M", "o", "d", "e", "r", "n", " ", "O", "f", "f", "i", "c", "e", " ", "B", "u", "i", "l", "d", "i", "n", "g">>

SeedName5 == <<"B", "e", "a", "c", "h", "f", "r", "o", "n", "t", " ", "C", "o", "n", "d", "o">>

sampleProperties ==
    << [name |-> SeedName1, category |-> "Residential", subcategory |-> "Villa",
        price |-> 4500000, type |-> "Buy", status |-> "Available", featured |-> TRUE],
       [name |-> SeedName2, category |-> "Residential", subcategory |-> "Penthouse",
        price |-> 2800000, type |-> "Buy", status |-> "Available", featured |-> TRUE],
       [name |-> SeedName3, category |-> "Residential", subcategory |-> "House",
        price |-> 850000, type |-> "Buy", status |-> "Available", featured |-> FALSE],
       [name |-> SeedName4, category |-> "Commercial", subcategory |-> "Office Building",
        price |-> 15000000, type |-> "Buy", status |-> "Available", featured |-> TRUE],
       [name |-> SeedName5, category |-> "Residential", subcategory |-> "Condo",
        price |-> 1200000, type |-> "Buy", status |-> "Available", featured |-> FALSE] >>

\* seedDatabase: Property.deleteMany({}) then Property.insertMany(sampleProperties).
\* insertMany validates and stamps the documents, all at the same instant, and
\* runs no pre('save') hook.
seedDatabase ==
    /\ properties' = [i \in nextPid..(nextPid + Len(sampleProperties) - 1) |->
                        Assign(Assign(PropertyDefaults, sampleProperties[i - nextPid + 1]),
                               [createdAt |-> now])]
    /\ nextPid' = nextPid + Len(sampleProperties)
    /\ request' = [op |-> "seedDatabase"]
    /\ storeCalls' = <<Call("deleteMany"), Call("insertMany")>>
    /\ response' = NoResponse
    /\ crawl' = NoCrawl
    /\ UNCHANGED <<contactVars, now, viewVars, envVars, serviceVars>>

(***************************************************************************)
(* Contact schema and its pre('save') classification hook.                 *)
(***************************************************************************)
ContactStatuses == {"pending", "contacted", "resolved", "spam"}

ContactPriorities == {"low", "medium", "high", "urgent"}

MessageMinLength == 10

MessageMaxLength == 1000

SubjectMaxLength == 200

NotesMaxLength == 500

urgentKeywords == {<<"u", "r", "g", "e", "n", "t">>, <<"a", "s", "a", "p">>, <<"i", "m", "m", "e", "d", "i", "a", "t", "e", "l", "y">>, <<"e", "m", "e", "r", "g", "e", "n", "c", "y">>}

highKeywords == {<<"i", "m", "p", "o", "r", "t", "a", "n", "t">>, <<"p", "r", "i", "o", "r", "i", "t", "y">>, <<"s", "o", "o", "n">>, <<"q", "u", "i", "c", "k", "l", "y">>}

\* The priority rule, mutated: the high keywords are tested first.
ClassifyPriorityHighFirst(messageText, priority) ==
    IF \E keyword \in highKeywords : Includes(messageText, keyword) THEN "high"
    ELSE IF \E keyword \in urgentKeywords : Includes(messageText, keyword) THEN "urgent"
    ELSE priority

\* The priority rule of the hook.
ClassifyPriority(messageText, priority) ==
    IF \E keyword \in urgentKeywords : Includes(messageText, keyword) THEN "urgent"
    ELSE IF \E keyword \in highKeywords : Includes(messageText, keyword) THEN "high"
    ELSE priority

TagViewingRequest == <<"v", "i", "e", "w", "i", "n", "g", "-", "r", "e", "q", "u", "e", "s", "t">>

TagPricingInquiry == <<"p", "r", "i", "c", "i", "n", "g", "-", "i", "n", "q", "u", "i", "r", "y">>

TagFinancing == <<"f", "i", "n", "a", "n", "c", "i", "n", "g">>

TagInvestment == <<"i", "n", "v", "e", "s", "t", "m", "e", "n", "t">>

\* The tag rule, mutated: 'visit' no longer earns the viewing-request tag.
AutoTagsViewingOnly(messageText) ==
    (IF Includes(messageText, <<"v", "i", "e", "w", "i", "n", "g">>)
       THEN <<TagViewingRequest>> ELSE <<>>)
    \o (IF Includes(messageText, <<"p", "r", "i", "c", "e">>) \/ Includes(messageText, <<"c", "o", "s", "t">>)
       THEN <<TagPricingInquiry>> ELSE <<>>)
    \o (IF Includes(messageText, <<"m", "o", "r", "t", "g", "a", "g", "e">>) \/ Includes(messageText, <<"f", "i", "n", "a", "n", "c", "i", "n", "g">>)
       THEN <<TagFinancing>> ELSE <<>>)
    \o (IF Includes(messageText, <<"i", "n", "v", "e", "s", "t", "m", "e", "n", "t">>)
       THEN <<TagInvestment>> ELSE <<>>)

\* The tags the hook derives from the text, in the order it pushes them.
AutoTags(messageText) ==
    (IF Includes(messageText, <<"v", "i", "e", "w", "i", "n", "g">>) \/ Includes(messageText, <<"v", "i", "s", "i", "t">>)
       THEN <<TagViewingRequest>> ELSE <<>>)
    \o (IF Includes(messageText, <<"p", "r", "i", "c", "e">>) \/ Includes(messageText, <<"c", "o", "s", "t">>)
       THEN <<TagPricingInquiry>> ELSE <<>>)
    \o (IF Includes(messageText, <<"m", "o", "r", "t", "g", "a", "g", "e">>) \/ Includes(messageText, <<"f", "i", "n", "a", "n", "c", "i", "n", "g">>)
       THEN <<TagFinancing>> ELSE <<>>)
    \o (IF Includes(messageText, <<"i", "n", "v", "e", "s", "t", "m", "e", "n", "t">>)
       THEN <<TagInvestment>> ELSE <<>>)

\* The text the hook inspects.
MessageText(doc) == ToLowerCase(doc.message \o <<" ">> \o Get(doc, "subject", <<>>))

\* The hook, mutated: it classifies on every save, not only on the first.
ContactPreSaveEverySave(doc, isNew) ==
    Assign(doc, [priority |-> ClassifyPriority(MessageText(doc), doc.priority),
                 tags |-> Unique(doc.tags \o AutoTags(MessageText(doc)))])

\* contactSchema.pre('save')
ContactPreSave(doc, isNew) ==
    IF isNew
      THEN Assign(doc, [priority |-> ClassifyPriority(MessageText(doc), doc.priority),
                        tags |-> Unique(doc.tags \o AutoTags(MessageText(doc)))])
      ELSE doc

ContactDefaults == [status |-> "pending", priority |-> "medium", tags |-> <<>>]

ContactPaths == {"message", "subject", "propertyId", "propertyName", "status",
                 "priority", "notes", "assignedTo", "responseDate", "tags"}

\* The setters of the schema's paths: trim on the texts, trim and lowercase
\* on every tag.
CastContact(data) ==
    [k \in DOMAIN data |->
       IF k \in {"message", "subject", "notes"} THEN Trim(data[k])
       ELSE IF k = "tags"
         THEN [i \in 1..Len(data[k]) |-> ToLowerCase(Trim(data[k][i]))]
         ELSE data[k]]

\* The validators of the paths named in `paths`.
ValidContactPaths(doc, paths) ==
    /\ "message" \in paths =>
          /\ Has(doc, "message")
          /\ Len(doc.message) >= MessageMinLength
          /\ Len(doc.message) <= MessageMaxLength
    /\ ("subject" \in paths /\ Has(doc, "subject")) => Len(doc.subject) <= SubjectMaxLength
    /\ ("status" \in paths /\ Has(doc, "status")) => doc.status \in ContactStatuses
    /\ ("priority" \in paths /\ Has(doc, "priority")) => doc.priority \in ContactPriorities
    /\ ("notes" \in paths /\ Has(doc, "notes")) => Len(doc.notes) <= NotesMaxLength

\* new Contact(data): defaults, casting, timestamps.
ConstructContact(data) ==
    Assign(Assign(ContactDefaults, CastContact(Strict(data, ContactPaths))),
           [createdAt |-> now])

\* validateContact: the chain of POST /contact (the fields the model keeps).
ValidateContact(body) ==
    /\ Has(body, "message")
    /\ Len(Trim(body.message)) >= MessageMinLength
    /\ Len(Trim(body.message)) <= MessageMaxLength
    /\ Has(body, "subject") => Len(Trim(body.subject)) <= SubjectMaxLength

(***************************************************************************)
(* Contact handlers.                                                       *)
(***************************************************************************)
InquiryAbout == <<"I", "n", "q", "u", "i", "r", "y", " ", "a", "b", "o", "u", "t", " ">>

\* Contact.create(data): construct, validate, run the save hooks, insert.
createContact(data) ==
    /\ request' = [op |-> "Contact.create", data |-> data]
    /\ response' = NoResponse
    /\ UNCHANGED <<propVars, now, crawl, viewVars, envVars, serviceVars>>
    /\ LET doc == ConstructContact(data)
       IN IF ValidContactPaths(doc, ContactPaths)
            THEN /\ contacts' = (nextCid :> ContactPreSave(doc, TRUE)) @@ contacts
                 /\ nextCid' = nextCid + 1
                 /\ storeCalls' = <<Call("insertOne")>>
            ELSE /\ UNCHANGED contactVars
                 /\ storeCalls' = <<>>

\* POST /api/v1/contact
submitContact(body) ==
    /\ request' = [op |-> "submitContact", body |-> body]
    /\ UNCHANGED <<propVars, now, crawl, viewVars, envVars, serviceVars>>
    /\ IF ~ValidateContact(body)
         THEN /\ storeCalls' = <<>>
              /\ response' = Failure("submitContact", 400, "VALIDATION_ERROR")
              /\ UNCHANGED contactVars
         ELSE LET clean == CastContact(body)
                  found == Has(clean, "propertyId") /\ clean.propertyId \in DOMAIN properties
                  noSubject == ~Has(clean, "subject") \/ Len(clean.subject) = 0
                  linked ==
                    IF found
                      THEN Assign([propertyId |-> clean.propertyId,
                                   propertyName |-> properties[clean.propertyId].name],
                                  IF noSubject
                                    THEN [subject |-> InquiryAbout \o
                                                      properties[clean.propertyId].name]
                                    ELSE Empty)
                      ELSE Empty
                  contactData == Assign(Strict(clean, {"message", "subject"}), linked)
                  doc == ConstructContact(contactData)
              IN IF ~ValidContactPaths(doc, ContactPaths)
                   THEN /\ storeCalls' = (IF Has(clean, "propertyId") THEN <<Call("findById")>> ELSE <<>>)
                        /\ response' = Failure("submitContact", 400, "VALIDATION_ERROR")
                        /\ UNCHANGED contactVars
                   ELSE LET contact == ContactPreSave(doc, TRUE)
                        IN /\ contacts' = (nextCid :> contact) @@ contacts
                           /\ nextCid' = nextCid + 1
                           /\ storeCalls' = (IF Has(clean, "propertyId") THEN <<Call("findById")>> ELSE <<>>)
                                            \o <<Call("insertOne")>>
                           /\ response' = Success("submitContact", 201,
                                  Assign([id |-> nextCid, status |-> contact.status],
                                         Strict(contact, {"subject"})))

\* PUT /api/v1/contact/:id
updateContact(id, body) ==
    /\ request' = [op |-> "updateContact", id |-> id, body |-> body]
    /\ UNCHANGED <<propVars, now, crawl, nextCid, viewVars, envVars, serviceVars>>
    /\ IF id \notin DOMAIN contacts
         THEN /\ storeCalls' = <<Call("findById")>>
              /\ response' = Failure("updateContact", 404, "NOT_FOUND")
              /\ UNCHANGED contacts
         ELSE LET contact == contacts[id]
                  given(k) == Has(body, k) /\ body[k] # ""
                  updateData ==
                    Assign(Assign(Assign(Assign(
                      IF given("status") THEN [status |-> body.status] ELSE Empty,
                      IF Has(body, "notes") /\ Len(body.notes) > 0
                        THEN [notes |-> body.notes] ELSE Empty),
                      IF given("assignedTo") THEN [assignedTo |-> body.assignedTo] ELSE Empty),
                      IF given("priority") THEN [priority |-> body.priority] ELSE Empty),
                      IF Has(body, "status") /\ body.status = "contacted"
                            /\ contact.status # "contacted"
                        THEN [responseDate |-> now] ELSE Empty)
              IN IF ~ValidContactPaths(updateData, DOMAIN updateData)
                   THEN /\ storeCalls' = <<Call("findById")>>
                        /\ response' = Failure("updateContact", 400, "VALIDATION_ERROR")
                        /\ UNCHANGED contacts
                   ELSE LET updated == Assign(contact, CastContact(updateData))
                        IN /\ contacts' = [contacts EXCEPT ![id] = updated]
                           /\ storeCalls' = <<Call("findById"), Call("findOneAndUpdate")>>
                           /\ response' = Success("updateContact", 200,
                                  Assign([id |-> id, status |-> updated.status,
                                          priority |-> updated.priority],
                                         Strict(updated, {"responseDate"})))

\* POST /api/v1/contact/:id/contacted, with the model's markAsContacted method
markAsContacted(id, body) ==
    /\ request' = [op |-> "markAsContacted", id |-> id, body |-> body]
    /\ UNCHANGED <<propVars, now, crawl, nextCid, viewVars, envVars, serviceVars>>
    /\ IF id \notin DOMAIN contacts
         THEN /\ storeCalls' = <<Call("findById")>>
              /\ response' = Failure("markAsContacted", 404, "NOT_FOUND")
              /\ UNCHANGED contacts
         ELSE LET changed ==
                    Assign(contacts[id],
                           Assign([status |-> "contacted", responseDate |-> now],
                                  IF Has(body, "notes") /\ Len(body.notes) > 0
                                    THEN CastContact([notes |-> body.notes]) ELSE Empty))
              IN IF ~ValidContactPaths(changed, ContactPaths)
                   THEN /\ storeCalls' = <<Call("findById")>>
                        /\ response' = Failure("markAsContacted", 400, "VALIDATION_ERROR")
                        /\ UNCHANGED contacts
                   ELSE LET saved == ContactPreSave(changed, FALSE)
                        IN /\ contacts' = [contacts EXCEPT ![id] = saved]
                           /\ storeCalls' = <<Call("findById"), Call("updateOne")>>
                           /\ response' = Success("markAsContacted", 200,
                                  [id |-> id, status |-> saved.status,
                                   responseDate |-> saved.responseDate])

\* DELETE /api/v1/contact/:id
deleteContact(id) ==
    /\ request' = [op |-> "deleteContact", id |-> id]
    /\ UNCHANGED <<propVars, now, crawl, nextCid, viewVars, envVars, serviceVars>>
    /\ IF id \notin DOMAIN contacts
         THEN /\ storeCalls' = <<Call("findById")>>
              /\ response' = Failure("deleteContact", 404, "NOT_FOUND")
              /\ UNCHANGED contacts
         ELSE /\ contacts' = [i \in (DOMAIN contacts) \ {id} |-> contacts[i]]
              /\ storeCalls' = <<Call("findById"), Call("findOneAndDelete")>>
              /\ response' = Success("deleteContact", 200, Empty)

\* GET /api/v1/contact/:id
getContact(id) ==
    /\ request' = [op |-> "getContact", id |-> id]
    /\ storeCalls' = <<Call("findById")>>
    /\ UNCHANGED <<propVars, contactVars, now, crawl, viewVars, envVars, serviceVars>>
    /\ IF id \notin DOMAIN contacts
         THEN response' = Failure("getContact", 404, "NOT_FOUND")
         ELSE response' = Success("getContact", 200,
                                  [id |-> id, status |-> contacts[id].status])

(***************************************************************************)
(* Inputs of the CRUD runs.                                                *)
(***************************************************************************)
NameVilla == <<"V", "i", "l", "l", "a">>

BogusPrice == <<"$", "1">>

Opt(k, values) == {Empty} \cup {[x \in {k} |-> v] : v \in values}

CreateBodies ==
    { Assign([name |-> NameVilla, type |-> "Buy"], Assign(a, Assign(b, Assign(c, d)))) :
        a \in {[category |-> v] : v \in Categories},
        b \in {[subcategory |-> v] : v \in {"Villa", "Warehouse"}},
        c \in {[price |-> v] : v \in {0, 1200}},
        d \in Opt("priceFormatted", {BogusPrice}) }

UpdateBodies ==
    { Assign(a, Assign(b, Assign(c, d))) :
        a \in Opt("category", {"Commercial", "Land"}),
        b \in Opt("subcategory", {"Warehouse"}),
        c \in Opt("price", {0, 1200}),
        d \in Opt("priceFormatted", {BogusPrice}) }

PropertyIds == 1..MaxPid

\* Empty collections other than User, idle limiters, nothing in flight.
InitCollections ==
    /\ properties = Empty
    /\ nextPid = 1
    /\ contacts = Empty
    /\ nextCid = 1
    /\ now = 0
    /\ response = NoResponse
    /\ request = NoRequest
    /\ crawl = NoCrawl
    /\ saves = {}
    /\ nextRid = 1
    /\ errorLog = {}
    /\ storeCalls = <<>>
    /\ services = Empty
    /\ nextSid = 1
    /\ serviceSaves = {}
    /\ hits = [limiter |-> 0, contactLimiter |-> 0]
    /\ inflight = {}

\* The stores are empty, nothing is in flight and no request was counted.
InitStores ==
    /\ InitCollections
    /\ users = Empty
    /\ nextUid = 1

Init == InitStores /\ nodeEnv = "production"

Next ==
    \/ \E body \in CreateBodies : nextPid <= MaxPid /\ createProperty(body)
    \/ \E id \in PropertyIds, body \in UpdateBodies : updateProperty(id, body)
    \/ \E id \in PropertyIds : deleteProperty(id)

Spec == Init /\ [][Next]_vars

(***************************************************************************)
(* Inputs of the list-query runs.                                          *)
(***************************************************************************)
QueryCreateBodies ==
    { Assign([name |-> NameVilla, category |-> "Residential", subcategory |-> "Villa",
              price |-> 2800000], Assign(a, Assign(b, c))) :
        a \in {[type |-> v] : v \in {"Sell"}},
        b \in Opt("status", {"Sold"}),
        c \in Opt("featured", {TRUE}) }

Million == <<"1", "0", "0", "0", "0", "0", "0">>

FiveMillion == <<"5", "0", "0", "0", "0", "0", "0">>

\* Every combination of the filter parameters, first page.
FilterQueries ==
    { Assign(a, Assign(b, Assign(c, Assign(d, Assign(e, Assign(f, g)))))) :
        a \in Opt("category", Categories),
        b \in Opt("type", {"Sell"}),
        c \in Opt("status", {"Sold"}),
        d \in Opt("featured", {"true", "false"}),
        e \in Opt("minPrice", {Million}),
        f \in Opt("maxPrice", {FiveMillion}),
        g \in {[limit |-> <<"2">>]} }

\* Every combination of page, limit and sort, over few filters.
PageQueries ==
    { Assign(a, Assign(b, Assign(c, d))) :
        a \in Opt("category", {"Residential"}),
        b \in Opt("page", {<<"2">>, <<"0", "3">>, <<"0">>}),
        c \in Opt("limit", {<<"2">>, <<"1", "0", "1">>}),
        d \in Opt("sort", {PriceField}) }

Queries == FilterQueries \cup PageQueries

\* The client reads the response.
receive ==
    /\ response # NoResponse
    /\ storeCalls' = <<>>
    /\ response' = NoResponse
    /\ request' = NoRequest
    /\ crawl' = NoCrawl
    /\ UNCHANGED <<propVars, contactVars, now, viewVars, envVars, serviceVars>>

\* q asks for the page after the last one the client collected.
ContinuesCrawl(q) ==
    /\ crawl.active
    /\ crawl.query = CrawlQuery(q)
    /\ Has(q, "page")
    /\ IsIntString(q.page)
    /\ ParseInt(q.page) = crawl.pages + 1

\* One client: it sends a request once it has read the last response, or
\* asks for the next page of the list it is walking.  The collection is
\* seeded first, by the script, before the server takes requests: listings
\* created through the API are stamped later.  Time passes between requests.
QueryNext ==
    \/ nextPid = 1 /\ seedDatabase
    \/ \E body \in QueryCreateBodies :
          /\ nextPid > Len(sampleProperties)
          /\ nextPid <= MaxQueryPid
          /\ now > 0
          /\ createProperty(body)
    \/ nextPid > 1 /\ response = NoResponse /\ Tick
    \/ \E q \in Queries :
          /\ response = NoResponse \/ ContinuesCrawl(q)
          /\ getProperties(q)
    \/ receive

QuerySpec == Init /\ [][QueryNext]_vars

(***************************************************************************)
(* Inputs of the classification runs.                                      *)
(***************************************************************************)
MsgScenario == <<"T", "h", "i", "s", " ", "i", "s", " ", "u", "r", "g", "e", "n", "t", ",", " ", "I", " ", "n", "e", "e", "d", " ", "i", "n", "f", "o", " ", "a", "b", "o", "u", "t", " ", "f", "i", "n", "a", "n", "c", "i", "n", "g", " ", "a", "s", "a", "p">>

MsgHigh == <<"P", "l", "e", "a", "s", "e", " ", "c", "a", "l", "l", " ", "m", "e", " ", "s", "o", "o", "n", " ", "a", "b", "o", "u", "t", " ", "t", "h", "e", " ", "p", "r", "i", "c", "e">>

MsgBoth == <<"E", "M", "E", "R", "G", "E", "N", "C", "Y", ":", " ", "a", "n", " ", "i", "m", "p", "o", "r", "t", "a", "n", "t", " ", "v", "i", "e", "w", "i", "n", "g">>

MsgPlain == <<"I", " ", "w", "o", "u", "l", "d", " ", "l", "i", "k", "e", " ", "s", "o", "m", "e", " ", "d", "e", "t", "a", "i", "l", "s">>

MsgRevisit == <<"W", "e", " ", "m", "a", "y", " ", "r", "e", "v", "i", "s", "i", "t", " ", "t", "h", "e", " ", "C", "o", "s", "t", "a", " ", "a", "r", "e", "a">>

MsgSplit == <<"P", "l", "e", "a", "s", "e", " ", "c", "a", "l", "l", " ", "m", "y", " ", "u", "r">>

MsgShort == <<" ", "T", "o", "o", " ", "s", "h", "o", "r", "t", " ">>

SubjGent == <<"g", "e", "n", "t", " ", "m", "a", "t", "t", "e", "r">>

SubjQuickly == <<"R", "e", "p", "l", "y", " ", "Q", "U", "I", "C", "K", "L", "Y">>

NameInvest == <<"I", "n", "v", "e", "s", "t", "m", "e", "n", "t", " ", "P", "l", "a", "z", "a">>

TagVip == <<"v", "i", "p">>

TagVipRaw == <<" ", "V", "I", "P", " ">>

ClassifyPropertyBodies ==
    {[name |-> NameInvest, category |-> "Commercial", subcategory |-> "Warehouse",
      price |-> 1200, type |-> "Sell"]}

SubmitBodies ==
    { Assign(a, Assign(b, c)) :
        a \in {[message |-> m] :
                 m \in {MsgScenario, MsgHigh, MsgBoth, MsgPlain, MsgRevisit, MsgSplit,
                        MsgShort}},
        b \in Opt("subject", {SubjGent, SubjQuickly}),
        c \in Opt("propertyId", {1}) }

CreateData ==
    { Assign(a, Assign(b, c)) :
        a \in {[message |-> m] :
                 m \in {MsgScenario, MsgHigh, MsgBoth, MsgPlain, MsgRevisit}},
        b \in Opt("priority", {"low", "urgent"}),
        c \in Opt("tags", {<<TagVip>>, <<TagFinancing, TagVipRaw, TagFinancing>>}) }

ClassifyNext ==
    \/ \E body \in ClassifyPropertyBodies : nextPid <= 1 /\ createProperty(body)
    \/ \E body \in SubmitBodies : nextCid <= MaxCid /\ submitContact(body)
    \/ \E data \in CreateData : nextCid <= MaxCid /\ createContact(data)

ClassifySpec == Init /\ [][ClassifyNext]_vars

(***************************************************************************)
(* Inputs of the contact life-cycle runs.                                  *)
(***************************************************************************)
NoteCalled == <<"c", "a", "l", "l", "e", "d">>

LifecycleBodies == {[message |-> m] : m \in {MsgScenario}}

UpdateContactBodies ==
    { Assign(a, b) :
        a \in Opt("status", {"contacted", "resolved", "archived"}),
        b \in Opt("priority", {"low"}) }
    \cup {[notes |-> NoteCalled, assignedTo |-> "agent"]}

MarkBodies == Opt("notes", {NoteCalled})

ContactIds == 1..MaxCid

ContactNext ==
    \/ \E body \in LifecycleBodies : nextCid <= MaxCid /\ submitContact(body)
    \/ \E id \in ContactIds, body \in UpdateContactBodies : updateContact(id, body)
    \/ \E id \in ContactIds, body \in MarkBodies : markAsContacted(id, body)
    \/ \E id \in ContactIds : deleteContact(id)
    \/ Tick

ContactSpec == Init /\ [][ContactNext]_vars

(***************************************************************************)
(* Inputs of the view-counter runs: one listing, read concurrently.        *)
(***************************************************************************)
ViewCreateBodies ==
    {[name |-> NameVilla, category |-> "Residential", subcategory |-> "Villa",
      price |-> 1200, type |-> "Buy"]}

ViewUpdateBodies == {[category |-> "Commercial"], [priceFormatted |-> BogusPrice]}

ViewIds == 1..2

ViewNext ==
    \/ \E body \in ViewCreateBodies : nextPid <= 1 /\ createProperty(body)
    \/ \E body \in ViewUpdateBodies : updateProperty(1, body)
    \/ \E id \in ViewIds : nextRid <= MaxRid /\ getProperty(id)
    \/ \E s \in saves, storeOk \in BOOLEAN : saveViews(s, storeOk)
    \/ deleteProperty(1)
    \/ nextSid <= 1 /\ createService([title |-> "Valuation"])
    \/ nextRid <= MaxRid /\ getService(1)
    \/ \E s \in serviceSaves, storeOk \in BOOLEAN : saveServiceViews(s, storeOk)
    \/ deleteService(1)

ViewSpec == Init /\ [][ViewNext]_vars

(***************************************************************************)
(* Inputs of the search runs.                                              *)
(***************************************************************************)
NameSeaVilla == <<"S", "e", "a", " ", "V", "i", "l", "l", "a">>

DescSeaVilla == <<"A", " ", "v", "i", "l", "l", "a", " ", "b", "y", " ", "t", "h", "e", " ", "s", "e", "a">>

LocMiami == <<"M", "i", "a", "m", "i">>

NameCityLoft == <<"C", "i", "t", "y", " ", "L", "o", "f", "t">>

DescCityLoft == <<"L", "o", "f", "t", " ", "n", "e", "a", "r", " ", "a", " ", "v", "i", "l", "l", "a">>

LocMiamiBeach == <<"M", "i", "a", "m", "i", " ", "B", "e", "a", "c", "h">>

TermVilla == <<"v", "i", "l", "l", "a">>

TermsVillaLoft == <<"V", "I", "L", "L", "A", " ", "l", "o", "f", "t">>

SearchCreateBodies ==
    { Assign(Assign([category |-> "Residential", subcategory |-> "Villa",
                     price |-> 1200, type |-> "Buy"], a), b) :
        a \in {[name |-> NameSeaVilla, description |-> DescSeaVilla,
                location |-> LocMiami],
               [name |-> NameCityLoft, description |-> DescCityLoft,
                location |-> LocMiamiBeach]},
        b \in Opt("status", {"Sold"}) }

SearchQueries ==
    { Assign(a, Assign(b, c)) :
        a \in Opt("q", {TermVilla, LocMiami, TermsVillaLoft, <<>>}),
        b \in Opt("page", {<<"2">>, <<"0">>}),
        c \in Opt("limit", {<<"1">>, <<"1", "0", "1">>}) }

SearchNext ==
    \/ \E body \in SearchCreateBodies :
          nextPid <= MaxSearchPid /\ createProperty(body)
    \/ \E query \in SearchQueries : response = NoResponse /\ searchProperties(query)
    \/ receive

SearchSpec == Init /\ [][SearchNext]_vars

(***************************************************************************)
(* The location search of GET /properties.                                 *)
(***************************************************************************)
LocUpperMiami == <<"M", "I", "A", "M", "I">>

LocDotted == <<"m", ".", "a", "m", "i">>

LocParen == <<"(">>

LocStar == <<"z", "*">>

LocPadded == <<" ", "l", "o", "f", "t", " ">>

LocationQueries ==
    { Assign(a, b) :
        a \in {[location |-> v] :
                 v \in {LocUpperMiami, LocDotted, LocParen, LocStar, LocPadded, <<" ">>}},
        b \in Opt("status", {"Sold"}) }

LocationNext ==
    \/ \E body \in SearchCreateBodies :
          nextPid <= MaxSearchPid /\ createProperty(body)
    \/ \E query \in LocationQueries : response = NoResponse /\ getProperties(query)
    \/ receive

LocationSpec == Init /\ [][LocationNext]_vars

(***************************************************************************)
(* Inputs of the service runs.                                             *)
(***************************************************************************)
PriceBodies ==
    { [title |-> "Valuation", priceType |-> t, price |-> p] :
        t \in PriceTypes, p \in {0, 6, 200, 1200} }

PriceUpdateBodies ==
    {[priceType |-> "percentage"], [price |-> 6], [price |-> -1]}

ServiceIds == 1..MaxSid

PriceNext ==
    \/ \E body \in PriceBodies \cup {[priceType |-> "hourly"]} :
          nextSid <= 1 /\ createService(body)
    \/ \E id \in ServiceIds, body \in PriceUpdateBodies : updateService(id, body)
    \/ \E id \in ServiceIds : nextRid <= MaxRid /\ getService(id)
    \/ \E s \in serviceSaves, storeOk \in BOOLEAN : saveServiceViews(s, storeOk)

PriceSpec == Init /\ [][PriceNext]_vars

ListingBodies ==
    { Assign([title |-> "Valuation"], Assign(a, Assign(b, Assign(c, d)))) :
        a \in Opt("featured", {TRUE}),
        b \in {[order |-> v] : v \in {1, 2}},
        c \in Opt("category", {"Legal Services"}),
        d \in Opt("active", {FALSE}) }

ServiceQueries ==
    { Assign(a, Assign(b, c)) :
        a \in Opt("category", {"Legal Services"}),
        b \in Opt("featured", {"true"}),
        c \in Opt("active", {"false"}) }

ListingNext ==
    \/ \E body \in ListingBodies : nextSid <= MaxSid /\ createService(body)
    \/ \E query \in ServiceQueries : getServices(query)
    \/ getActiveServices
    \/ \E category \in {"Property Services", "Legal Services"} :
          getServicesByCategory(category)
    \/ \E query \in Opt("limit", {<<"1">>}) : getFeaturedServices(query)

ListingSpec == Init /\ [][ListingNext]_vars

(***************************************************************************)
(* Inputs of the failure runs: every origin of a failure response, in a    *)
(* process started in either environment.                                  *)
(***************************************************************************)
NodeEnvs == {"development", "production"}

ErrorInit == InitStores /\ nodeEnv \in NodeEnvs

ErrorOps == {"getProperties", "getContacts", "createService"}

ErrorNext ==
    \/ \E name \in {"limiter", "contactLimiter"} :
          /\ hits[name] <= MaxHits
          /\ \A other \in DOMAIN hits : other # name => hits[other] = 0
          /\ rateLimit(name)
    \/ \E name \in {"limiter", "contactLimiter"} : resetLimiter(name)
    \/ \E header \in AuthHeaders, user \in UserLookups : adminOnly(header, user)
    \/ routeNotFound
    \/ notFound
    \/ handleValidationErrors
    \/ \E op \in ErrorOps, err \in StoreErrors \cup ThrownErrors :
          asyncHandlerCatches(op, err)
    \/ \E outcome \in {Empty, LoginError, NetworkError} : login(outcome)
    \/ \E query \in LocationQueries : getProperties(query)
    \/ \E query \in SearchQueries : searchProperties(query)
    \/ \E id \in 1..2 : deleteProperty(id)

ErrorSpec == ErrorInit /\ [][ErrorNext]_vars

(***************************************************************************)
(* Inputs of the not-found runs: one listing, one contact and one service, *)
(* each created, read, updated and deleted by id.                          *)
(***************************************************************************)
AbsentIds == 1..2

NotFoundNext ==
    \/ \E body \in ViewCreateBodies : nextPid <= 1 /\ createProperty(body)
    \/ \E id \in AbsentIds : nextRid <= MaxRid /\ saves = {} /\ getProperty(id)
    \/ \E id \in AbsentIds : updateProperty(id, [category |-> "Commercial"])
    \/ \E id \in AbsentIds : deleteProperty(id)
    \/ \E s \in saves : saveViews(s, TRUE)
    \/ \E body \in LifecycleBodies : nextCid <= 1 /\ submitContact(body)
    \/ \E id \in AbsentIds : getContact(id)
    \/ \E id \in AbsentIds : updateContact(id, [status |-> "contacted"])
    \/ \E id \in AbsentIds : deleteContact(id)
    \/ nextSid <= 1 /\ createService([title |-> "Valuation"])
    \/ \E id \in AbsentIds : nextRid <= MaxRid /\ serviceSaves = {} /\ getService(id)
    \/ \E id \in AbsentIds : updateService(id, [price |-> 6])
    \/ \E id \in AbsentIds : deleteService(id)
    \/ \E s \in serviceSaves : saveServiceViews(s, TRUE)

NotFoundSpec == Init /\ [][NotFoundNext]_vars

(***************************************************************************)
(* Properties of the list query.                                           *)
(***************************************************************************)
Listed == response.op = "getProperties" /\ response.success

Page == response.data.properties

PageInfo == response.data.pagination

AskedPage == IF Has(request.query, "page") THEN ParseInt(request.query.page) ELSE 1

AskedLimit == IF Has(request.query, "limit") THEN ParseInt(request.query.limit) ELSE 10

AskedSort == Get(request.query, "sort", DefaultSort)

\* doc satisfies every filter the query q supplies.
Satisfies(doc, q) ==
    /\ Has(q, "category") => doc.category = q.category
    /\ Has(q, "type") => doc.type = q.type
    /\ doc.status = (IF Has(q, "status") THEN q.status ELSE "Available")
    /\ Has(q, "minPrice") => doc.price >= ParseFloat(q.minPrice)
    /\ Has(q, "maxPrice") => doc.price <= ParseFloat(q.maxPrice)
    /\ Has(q, "featured") => doc.featured = (q.featured = "true")

Satisfying(q) == {id \in DOMAIN properties : Satisfies(properties[id], q)}

\* C1: every listing of a returned page satisfies every supplied filter
\* (category, type, status or 'Available', minPrice, maxPrice, featured), and
\* a filter that is not supplied imposes no condition: the listings counted
\* are exactly those that satisfy the supplied filters.
C1_PageSatisfiesFilters ==
    Listed =>
       /\ \A i \in 1..Len(Page) :
             /\ Page[i] \in DOMAIN properties
             /\ Satisfies(properties[Page[i]], request.query)
       /\ PageInfo.totalItems = Cardinality(Satisfying(request.query))

\* A page filtered by category and by both price bounds, with a listing on it
\* and a stored listing left out.
C1_Witness ==
    /\ Listed
    /\ {"category", "minPrice", "maxPrice"} \subseteq DOMAIN request.query
    /\ Len(Page) >= 1
    /\ PageInfo.totalItems < Cardinality(DOMAIN properties)

\* A page filtered by a lower price bound alone that leaves a listing out.
C1_WitnessSingleBound ==
    /\ Listed
    /\ Has(request.query, "minPrice") /\ ~Has(request.query, "maxPrice")
    /\ Len(Page) >= 1
    /\ \E id \in DOMAIN properties :
          /\ properties[id].status = "Available"
          /\ properties[id].price < ParseFloat(request.query.minPrice)

\* The crawl has collected page 1 up to page totalPages.
CrawlComplete ==
    /\ Listed
    /\ crawl.active
    /\ crawl.pages = PageInfo.totalPages

\* C2: the pages 1..totalPages of one query over an unchanged collection hold
\* each matching listing exactly once, ties on the sort key included.
C2_PagesPartitionMatches ==
    CrawlComplete =>
       crawl.seen = [id \in Satisfying(request.query) |-> 1]

\* No two of the given listings have the same sort key.
NoTies(ids, sort) ==
    \A a, b \in ids : a # b => Before(a, b, sort) \/ Before(b, a, sort)

\* The same, for the queries whose matching listings all differ on the sort key.
PagesPartitionMatchesWithoutTies ==
    (CrawlComplete /\ NoTies(Satisfying(request.query), AskedSort)) =>
       crawl.seen = [id \in Satisfying(request.query) |-> 1]

\* Position pos (counted from 1) is one the store may give listing x among ids.
MayStandAt(x, pos, ids, sort) ==
    /\ Cardinality({y \in ids : Before(y, x, sort)}) < pos
    /\ pos <= Cardinality({y \in ids : ~Before(x, y, sort)})

\* C3: for page >= 1 and 1 <= limit <= 100 the window starts at offset
\* (page-1)*limit and the pagination object is {currentPage = page,
\* totalPages = ceil(totalItems/limit), totalItems, itemsPerPage = limit,
\* hasNextPage = currentPage < totalPages, hasPreviousPage = currentPage > 1};
\* totalItems = 0 gives totalPages = 0 and hasNextPage = false.
C3_WindowAndPageInfo ==
    Listed =>
       LET ids == Satisfying(request.query)
           total == Cardinality(ids)
           offset == (AskedPage - 1) * AskedLimit
       IN /\ AskedPage >= 1 /\ AskedLimit >= 1 /\ AskedLimit <= 100
          /\ PageInfo.currentPage = AskedPage
          /\ PageInfo.itemsPerPage = AskedLimit
          /\ PageInfo.totalItems = total
          /\ PageInfo.totalPages * AskedLimit >= total
          /\ PageInfo.totalPages >= 0
          /\ PageInfo.totalPages > 0 => (PageInfo.totalPages - 1) * AskedLimit < total
          /\ PageInfo.hasNextPage = (AskedPage < PageInfo.totalPages)
          /\ PageInfo.hasPreviousPage = (AskedPage > 1)
          /\ total = 0 => PageInfo.totalPages = 0 /\ ~PageInfo.hasNextPage
          /\ Len(Page) = Min(AskedLimit, Max(0, total - offset))
          /\ \A i, j \in 1..Len(Page) : i # j => Page[i] # Page[j]
          /\ \A i \in 1..Len(Page) :
                /\ Page[i] \in ids
                /\ MayStandAt(Page[i], offset + i, ids, AskedSort)

\* page=2, limit=2 over 5 matching listings: two listings, the 3rd and 4th,
\* with a next and a previous page.
C3_Witness ==
    /\ Listed
    /\ AskedPage = 2 /\ AskedLimit = 2
    /\ PageInfo.totalItems = 5
    /\ Len(Page) = 2
    /\ PageInfo.totalPages = 3
    /\ PageInfo.hasNextPage /\ PageInfo.hasPreviousPage

\* C4 as stated: hasNextPage is false exactly when currentPage = totalPages or
\* totalItems = 0, and hasPreviousPage is false exactly when currentPage = 1.
C4_Original ==
    Listed =>
       /\ ~PageInfo.hasNextPage <=>
             (PageInfo.currentPage = PageInfo.totalPages \/ PageInfo.totalItems = 0)
       /\ ~PageInfo.hasPreviousPage <=> (PageInfo.currentPage = 1)

\* C4 amended: hasNextPage is false exactly when currentPage >= totalPages
\* (the last page, any page beyond it, and every page when totalItems = 0),
\* and hasPreviousPage is false exactly when currentPage = 1.
C4_NavigationFlags ==
    Listed =>
       /\ ~PageInfo.hasNextPage <=> (PageInfo.currentPage >= PageInfo.totalPages)
       /\ ~PageInfo.hasPreviousPage <=> (PageInfo.currentPage = 1)
       /\ PageInfo.totalItems = 0 => ~PageInfo.hasNextPage

\* A page beyond the last one of a non-empty result: no next page.
C4_Witness ==
    /\ Listed
    /\ PageInfo.totalItems > 0
    /\ PageInfo.currentPage > PageInfo.totalPages
    /\ ~PageInfo.hasNextPage
    /\ PageInfo.hasPreviousPage

(***************************************************************************)
(* Properties of the contact classification.                               *)
(***************************************************************************)
\* The text occurs somewhere in `text`, compared character by character.
Mentions(text, word) ==
    \E t \in {text} :
       \E i \in 1..Len(t) :
          /\ i + Len(word) - 1 <= Len(t)
          /\ \A j \in 1..Len(word) : t[i + j - 1] = word[j]

MentionsAny(text, words) == \E word \in words : Mentions(text, word)

\* The classified text of a stored contact.
TextOf(contact) ==
    ToLowerCase(contact.message \o <<" ">> \o
                (IF Has(contact, "subject") THEN contact.subject ELSE <<>>))

\* What the caller of the creating request supplied.
SuppliedPriority(req) ==
    IF req.op = "Contact.create" /\ Has(req.data, "priority") THEN req.data.priority
    ELSE "medium"

SuppliedTags(req) ==
    IF req.op = "Contact.create" /\ Has(req.data, "tags")
      THEN {ToLowerCase(Trim(req.data.tags[i])) : i \in 1..Len(req.data.tags)}
      ELSE {}

ExpectedAutoTags(text) ==
    (IF MentionsAny(text, {<<"v", "i", "e", "w", "i", "n", "g">>, <<"v", "i", "s", "i", "t">>}) THEN {TagViewingRequest} ELSE {})
    \cup (IF MentionsAny(text, {<<"p", "r", "i", "c", "e">>, <<"c", "o", "s", "t">>}) THEN {TagPricingInquiry} ELSE {})
    \cup (IF MentionsAny(text, {<<"m", "o", "r", "t", "g", "a", "g", "e">>, <<"f", "i", "n", "a", "n", "c", "i", "n", "g">>}) THEN {TagFinancing} ELSE {})
    \cup (IF MentionsAny(text, {<<"i", "n", "v", "e", "s", "t", "m", "e", "n", "t">>}) THEN {TagInvestment} ELSE {})

UrgentWords ==
    {<<"u", "r", "g", "e", "n", "t">>,
     <<"a", "s", "a", "p">>,
     <<"i", "m", "m", "e", "d", "i", "a", "t", "e", "l", "y">>,
     <<"e", "m", "e", "r", "g", "e", "n", "c", "y">>}

HighWords ==
    {<<"i", "m", "p", "o", "r", "t", "a", "n", "t">>,
     <<"p", "r", "i", "o", "r", "i", "t", "y">>,
     <<"s", "o", "o", "n">>,
     <<"q", "u", "i", "c", "k", "l", "y">>}

Created == (DOMAIN contacts') \ (DOMAIN contacts)

\* C5: a contact is created with priority 'urgent' when its lower-cased
\* message + ' ' + subject mentions an urgent keyword, whatever priority the
\* caller supplied; otherwise 'high' when it mentions a high keyword;
\* otherwise the caller-supplied priority, or 'medium' when none was supplied.
C5_PriorityRule ==
    [][\A id \in Created :
          \A text \in {TextOf(contacts'[id])} :
             contacts'[id].priority =
               IF MentionsAny(text, UrgentWords)
                 THEN "urgent"
               ELSE IF MentionsAny(text, HighWords)
                 THEN "high"
               ELSE SuppliedPriority(request')]_vars

\* A text with both an urgent and a high keyword, created with a supplied
\* priority of 'low', is stored as 'urgent'.
C5_Witness ==
    /\ request.op = "Contact.create"
    /\ request.data.message = MsgBoth
    /\ Has(request.data, "priority") /\ request.data.priority = "low"
    /\ \E id \in DOMAIN contacts :
          /\ contacts[id].message = MsgBoth
          /\ contacts[id].priority = "urgent"

\* C6: a contact is created with exactly the caller-supplied tags plus each
\* automatic tag whose keywords the text mentions; no tag appears twice; the
\* rule applied again to its own output for the same text gives the same
\* tags; the financing scenario gets 'urgent', 'financing' and no
\* 'viewing-request'.
C6_TagRule ==
    [][\A id \in Created :
          \A contact \in {contacts'[id]} :
          \A text \in {TextOf(contact)}, tags \in {contact.tags} :
             /\ Range(tags) = SuppliedTags(request') \cup ExpectedAutoTags(text)
             /\ \A i, j \in 1..Len(tags) : tags[i] = tags[j] => i = j
             /\ Unique(tags \o AutoTags(text)) = tags
             /\ (contact.message = MsgScenario /\ ~Has(contact, "subject")) =>
                   /\ contact.priority = "urgent"
                   /\ TagFinancing \in Range(tags)
                   /\ TagViewingRequest \notin Range(tags)]_vars

\* A caller-supplied tag list with a repeated tag and an unnormalised one,
\* on a text that earns the repeated tag again.
C6_Witness ==
    /\ request.op = "Contact.create"
    /\ Has(request.data, "tags")
    /\ request.data.tags = <<TagFinancing, TagVipRaw, TagFinancing>>
    /\ request.data.message = MsgScenario
    /\ \E id \in DOMAIN contacts : contacts[id].tags = <<TagFinancing, TagVip>>

(***************************************************************************)
(* Properties of the contact life cycle.                                   *)
(***************************************************************************)
Kept == (DOMAIN contacts) \cap (DOMAIN contacts')

\* C7: after creation no operation changes a contact's tags, and its
\* priority changes only to the value an updateContact request supplies.
C7_ClassifiedOnce ==
    [][\A id \in Kept :
          /\ contacts'[id].tags = contacts[id].tags
          /\ contacts'[id].priority # contacts[id].priority =>
                /\ request'.op = "updateContact"
                /\ request'.id = id
                /\ Has(request'.body, "priority")
                /\ request'.body.priority = contacts'[id].priority]_vars

\* A contact whose text mentions an urgent keyword, lowered by staff, has
\* been saved again by markAsContacted and is still 'low'.
C7_Witness ==
    /\ request.op = "markAsContacted"
    /\ request.id \in DOMAIN contacts
    /\ contacts[request.id].message = MsgScenario
    /\ contacts[request.id].status = "contacted"
    /\ contacts[request.id].priority = "low"
    /\ contacts[request.id].tags = <<TagFinancing>>

\* C8: a contact has no responseDate before it first becomes 'contacted',
\* and a responseDate once set is never changed by a later operation.
C8_ResponseDateSetOnce ==
    [][\A id \in Kept :
          IF Has(contacts[id], "responseDate")
            THEN /\ Has(contacts'[id], "responseDate")
                 /\ contacts'[id].responseDate = contacts[id].responseDate
            ELSE Has(contacts'[id], "responseDate") =>
                    /\ contacts[id].status # "contacted"
                    /\ contacts'[id].status = "contacted"]_vars

\* The part of C8 that holds: a responseDate is first set by a transition
\* into 'contacted', stamped with the time of that request.
ResponseDateFirstSet ==
    [][\A id \in Kept :
          (~Has(contacts[id], "responseDate") /\ Has(contacts'[id], "responseDate")) =>
             /\ contacts[id].status # "contacted"
             /\ contacts'[id].status = "contacted"
             /\ contacts'[id].responseDate = now]_vars

(***************************************************************************)
(* Properties of the stored listings.                                      *)
(***************************************************************************)
\* C9: every stored listing's subcategory belongs to the set valid for its
\* category.
C9_SubcategoryFitsCategory ==
    \A id \in DOMAIN properties :
       \/ /\ properties[id].category = "Residential"
          /\ properties[id].subcategory \in ResidentialTypes
       \/ /\ properties[id].category = "Commercial"
          /\ properties[id].subcategory \in CommercialTypes

\* C10: every stored listing's priceFormatted is the US-dollar formatting of
\* its current price, price 0 included.
C10_PriceFormattedIsCurrent ==
    \A id \in DOMAIN properties :
       /\ Has(properties[id], "priceFormatted")
       /\ properties[id].priceFormatted = FormatUSD(properties[id].price)


(***************************************************************************)
(* Properties of the view counter.                                         *)
(***************************************************************************)
Settled == (saves \ saves') \cup (serviceSaves \ serviceSaves')

Started == (saves' \ saves) \cup (serviceSaves' \ serviceSaves)

\* A read of a stored listing, or of a stored active service, is answered
\* with success and the document.
ReadAnswered ==
    /\ (request.op = "getProperty" /\ request.id \in DOMAIN properties) =>
          /\ response.success
          /\ response.status = 200
          /\ response.data.id = request.id
    /\ (request.op = "getService" /\ request.id \in DOMAIN services) =>
          /\ response.success
          /\ response.status = 200
          /\ response.data.id = request.id

\* C11: a read of a stored listing (or service) is answered with success and
\* the document whether its save is pending, has succeeded or has failed;
\* the response is sent in the step that starts the save, not after the save
\* settles; a settling save sends nothing, and a failed one changes only the
\* error log.
C11_IncrementDetached ==
    /\ []ReadAnswered
    /\ [][/\ Started # {} =>
               /\ request'.op \in {"getProperty", "getService"}
               /\ response'.success /\ response'.status = 200
               /\ \A s \in Started : s.id = request'.id /\ s.id = response'.data.id
          /\ Settled # {} =>
               /\ response' = response
               /\ request' = request
               /\ \A s \in Settled :
                     s.rid \in errorLog' =>
                        properties' = properties /\ services' = services]_vars

\* A read of a service was answered with success, and its save has since
\* failed and been logged.
ServiceReadThenFailedSave ==
    /\ request.op = "getService"
    /\ response.success /\ response.status = 200
    /\ serviceSaves = {}
    /\ (nextRid - 1) \in errorLog

\* The last read was answered with success, and its save has since failed
\* and been logged; the listing is still stored with no view counted.
C11_Witness ==
    /\ request.op = "getProperty"
    /\ response.success /\ response.status = 200
    /\ request.id \in DOMAIN properties
    /\ saves = {}
    /\ (nextRid - 1) \in errorLog
    /\ properties[request.id].views = 0

MatchesText(doc, q) ==
    \E w \in Range(Words(q)) :
       \/ w \in Range(Words(Get(doc, "location", <<>>)))
       \/ w \in Range(Words(doc.name))
       \/ w \in Range(Words(Get(doc, "description", <<>>)))

SearchMatching(q) ==
    {id \in DOMAIN properties :
        properties[id].status = "Available" /\ MatchesText(properties[id], q)}

SearchHasText == Has(request.query, "q") /\ Len(request.query.q) > 0

\* C13: a search answers with listings that are 'Available' and match the
\* text, in descending order of score, and counts totalItems on the same
\* predicate; with q empty or missing it answers 400 VALIDATION_ERROR and
\* makes no call on the store.
C13_SearchResults ==
    request.op = "searchProperties" =>
       IF ~SearchHasText
         THEN /\ ~response.success
              /\ response.status = 400
              /\ response.code = "VALIDATION_ERROR"
              /\ storeCalls = <<>>
         ELSE response.success =>
                \A q \in {request.query.q} :
                \A page \in {response.data.properties} :
                   /\ Range(page) \subseteq SearchMatching(q)
                   /\ \A i, j \in 1..Len(page) :
                         i < j => /\ page[i] # page[j]
                                  /\ TextScore(properties[page[i]], q) >=
                                       TextScore(properties[page[j]], q)
                   /\ response.data.pagination.currentPage = 1 =>
                         \A x \in Range(page), y \in SearchMatching(q) \ Range(page) :
                            TextScore(properties[y], q) <= TextScore(properties[x], q)
                   /\ response.data.pagination.totalItems =
                         Cardinality(SearchMatching(q))

\* A search listed two listings, the better match first, while a listing
\* that matches the text but is not 'Available' was left out.
C13_Witness ==
    /\ request.op = "searchProperties"
    /\ response.success
    /\ Len(response.data.properties) = 2
    /\ TextScore(properties[response.data.properties[1]], request.query.q) >
         TextScore(properties[response.data.properties[2]], request.query.q)
    /\ \E id \in DOMAIN properties :
          /\ properties[id].status = "Sold"
          /\ MatchesText(properties[id], request.query.q)

\* C14: no search response has itemsPerPage outside 1..100 or currentPage
\* below 1, and no search makes a find on the store with a negative offset
\* or a limit above 100.
C14_SearchPaginationContract ==
    request.op = "searchProperties" =>
       /\ response.success =>
             /\ response.data.pagination.itemsPerPage >= 1
             /\ response.data.pagination.itemsPerPage <= 100
             /\ response.data.pagination.currentPage >= 1
       /\ \A i \in 1..Len(storeCalls) :
             storeCalls[i].call = "find" =>
                storeCalls[i].skip >= 0 /\ storeCalls[i].limit <= 100

\* Whether the text occurs literally, ignoring case, in one of the three
\* searched fields of the document.
ContainsLiterally(doc, text) ==
    \E field \in LocationFields :
       Includes(ToLowerCase(Get(doc, field, <<>>)), ToLowerCase(text))

LocationAsked ==
    /\ request.op = "getProperties"
    /\ Has(request.query, "location")
    /\ Len(Trim(request.query.location)) > 0

LocationMatching ==
    {id \in DOMAIN properties :
        /\ properties[id].status = Get(request.query, "status", "Available")
        /\ ContainsLiterally(properties[id], Trim(request.query.location))}

\* C15: for every location text, '.', '(' and '*' included, the listings
\* that pass the location filter are those that contain the text literally,
\* ignoring case, in location, name or description.
C15_LocationContainsMatch ==
    LocationAsked =>
       /\ response.success
       /\ Range(response.data.properties) = LocationMatching
       /\ response.data.pagination.totalItems = Cardinality(LocationMatching)

\* C15, for texts of letters, digits and blanks only: the filter is the
\* literal contains-match.
C15_PlainTextContainsMatch ==
    (LocationAsked /\ \A i \in 1..Len(request.query.location) :
                         \/ IsWordChar(request.query.location[i])
                         \/ request.query.location[i] = " ") =>
       /\ response.success
       /\ Range(response.data.properties) = LocationMatching
       /\ response.data.pagination.totalItems = Cardinality(LocationMatching)

(***************************************************************************)
(* Properties of the services.                                             *)
(***************************************************************************)
ServiceShown ==
    response.op \in {"createService", "getService", "updateService"} /\ response.success

\* C16: formattedPrice is 'Free' in mode 'free' whatever the amount;
\* otherwise 'Contact for pricing' in mode 'consultation' or with amount 0;
\* otherwise the currency string followed by '/hour' in mode 'hourly', the
\* bare amount followed by '%' in mode 'percentage', and the plain currency
\* string in every other mode; ('hourly', 200) gives '$200.00/hour' and
\* ('percentage', 6) gives '6%'.
C16_FormattedPriceByMode ==
    ServiceShown =>
       \A d \in {response.data} :
          /\ d.priceType = "free" => d.formattedPrice = TextFree
          /\ (d.priceType # "free" /\ (d.priceType = "consultation" \/ d.price = 0)) =>
                d.formattedPrice = TextContactForPricing
          /\ (d.priceType = "hourly" /\ d.price # 0) =>
                d.formattedPrice = FormatUSD(d.price) \o <<"/", "h", "o", "u", "r">>
          /\ (d.priceType = "percentage" /\ d.price # 0) =>
                d.formattedPrice = Digits(d.price) \o <<"%">>
          /\ (d.priceType = "fixed" /\ d.price # 0) =>
                d.formattedPrice = FormatUSD(d.price)
          /\ (d.priceType = "hourly" /\ d.price = 200) =>
                d.formattedPrice =
                   <<"$", "2", "0", "0", ".", "0", "0", "/", "h", "o", "u", "r">>
          /\ (d.priceType = "percentage" /\ d.price = 6) =>
                d.formattedPrice = <<"6", "%">>

C16_Witness ==
    /\ response.op = "getService"
    /\ response.success
    /\ response.data.priceType = "hourly"
    /\ response.data.price = 200
    /\ response.data.formattedPrice =
          <<"$", "2", "0", "0", ".", "0", "0", "/", "h", "o", "u", "r">>

ServicesListed ==
    /\ response.op \in {"getServices", "getActiveServices", "getServicesByCategory",
                        "getFeaturedServices"}
    /\ response.success

\* a may stand before b in a listing by featured descending, then display
\* order ascending.
FeaturedThenOrder(a, b) ==
    \/ services[a].featured /\ ~services[b].featured
    \/ services[a].featured = services[b].featured /\ services[a].order <= services[b].order

\* C17: every operation that lists services returns them with the featured
\* ones first and, among services equal in featured, by ascending display
\* order.
C17_ListedByFeaturedThenOrder ==
    ServicesListed =>
       \A list \in {response.data.services} :
          \A i, j \in 1..Len(list) : i < j => FeaturedThenOrder(list[i], list[j])

\* C17, for the operations that sort by { featured: -1, order: 1 } or list
\* featured services only.
C17_ListedByFeaturedThenOrderButCategory ==
    (ServicesListed /\ response.op # "getServicesByCategory") =>
       \A list \in {response.data.services} :
          \A i, j \in 1..Len(list) : i < j => FeaturedThenOrder(list[i], list[j])

(***************************************************************************)
(* Properties of the failure responses.                                    *)
(***************************************************************************)
ErrorVocabulary ==
    {"NOT_FOUND", "VALIDATION_ERROR", "DUPLICATE_FIELD", "UNAUTHORIZED", "FORBIDDEN",
     "RATE_LIMIT_EXCEEDED", "INTERNAL_ERROR", "FILE_TOO_LARGE", "TOO_MANY_FILES",
     "INVALID_FILE_FIELD"}

WellFormedFailure ==
    /\ response.envelope = {"success", "error", "timestamp"}
    /\ {"code", "message"} \subseteq response.errorKeys
    /\ response.errorKeys \subseteq {"code", "message", "details", "stack"}

\* C18: every failure response, whatever its origin, has the members
\* success, error and timestamp, an error object with code, message and
\* optionally details, and a code of the fixed vocabulary.
C18_FailureEnvelope ==
    ~response.success => WellFormedFailure /\ response.code \in ErrorVocabulary

\* C18, for the failures written by a handler, the validation middleware,
\* the auth middleware and the 404 handlers.
C18_HandlerFailureEnvelope ==
    (~response.success /\ request.op \in {"adminOnly", "routeNotFound", "notFound",
                                          "handleValidationErrors", "login",
                                          "deleteProperty"}) =>
       WellFormedFailure /\ response.code \in ErrorVocabulary

StoreFailed == Has(request, "error") /\ request.error \in StoreErrors

\* C19: an error of the backing store is answered with code INTERNAL_ERROR
\* and a message that is not the error's own text, with a stack only in
\* development, and the failed call on the store is made once.
C19_StoreErrorIsGeneric ==
    StoreFailed =>
       /\ ~response.success
       /\ response.code = "INTERNAL_ERROR"
       /\ Has(response, "message") => response.message # request.error.message
       /\ Has(response, "stack") <=> nodeEnv = "development"
       /\ Len(storeCalls) = 1

\* C19, the part on the stack and on retries: an error handed to the error
\* handler is answered without success, with the stack exactly in
\* development, after one call on the store.
C19_StackOnlyInDevelopment ==
    (StoreFailed /\ request.op # "login") =>
       /\ ~response.success
       /\ Has(response, "stack") <=> nodeEnv = "development"
       /\ Len(storeCalls) = 1

(***************************************************************************)
(* Properties of the reads, updates and deletes by id.                     *)
(***************************************************************************)
PropertyIdOps == {"getProperty", "updateProperty", "deleteProperty"}

ContactIdOps == {"getContact", "updateContact", "deleteContact"}

ServiceIdOps == {"getService", "updateService", "deleteService"}

\* The step serves a request (it is not a save that settles).
RequestServed == saves \subseteq saves' /\ serviceSaves \subseteq serviceSaves'

NotFoundAnswered ==
    ~response'.success /\ response'.status = 404 /\ response'.code = "NOT_FOUND"

StoresUnchanged ==
    properties' = properties /\ contacts' = contacts /\ services' = services

\* C20: a read, update or delete by an id that identifies no stored document
\* is answered 404 NOT_FOUND and leaves the stores unchanged; a successful
\* delete removes the document, and an id once removed identifies no
\* document ever after, so every later read, update or delete of it is
\* answered NOT_FOUND.
C20_AbsentIdIsNotFound ==
    [][/\ (RequestServed /\ request'.op \in PropertyIdOps
                         /\ request'.id \notin DOMAIN properties) =>
             NotFoundAnswered /\ StoresUnchanged
       /\ (RequestServed /\ request'.op \in ContactIdOps
                         /\ request'.id \notin DOMAIN contacts) =>
             NotFoundAnswered /\ StoresUnchanged
       /\ (RequestServed /\ request'.op \in ServiceIdOps
                         /\ request'.id \notin DOMAIN services) =>
             NotFoundAnswered /\ StoresUnchanged
       /\ (RequestServed /\ request'.op = "deleteProperty" /\ response'.success) =>
             request'.id \notin DOMAIN properties'
       /\ \A id \in 1..(nextPid - 1) :
             id \notin DOMAIN properties => id \notin DOMAIN properties'
       /\ \A id \in 1..(nextCid - 1) :
             id \notin DOMAIN contacts => id \notin DOMAIN contacts'
       /\ \A id \in 1..(nextSid - 1) :
             id \notin DOMAIN services => id \notin DOMAIN services']_vars

\* A listing was created, read, and deleted while the save of its view was
\* pending; the save has settled, and a later read of the id is answered
\* NOT_FOUND.
C20_Witness ==
    /\ request.op = "getProperty"
    /\ request.id = 1
    /\ nextPid = 2
    /\ properties = Empty
    /\ saves = {}
    /\ nextRid = 2
    /\ ~response.success /\ response.status = 404 /\ response.code = "NOT_FOUND"

(***************************************************************************)
(* Users, and the routes behind adminOnly.                                 *)
(***************************************************************************)
UserRoles == {"user", "agent", "admin"}

AdminEmail == <<"a", "d", "m", "i", "n", "@", "r", "e", "a", "l", "e", "s", "t", "a", "t", "e", ".", "c", "o", "m">>

UserEmail == <<"t", "e", "s", "t", "@", "e", "x", "a", "m", "p", "l", "e", ".", "c", "o", "m">>

FormerEmail == <<"f", "o", "r", "m", "e", "r", "@", "r", "e", "a", "l", "e", "s", "t", "a", "t", "e", ".", "c", "o", "m">>

AdminName == <<"A", "d", "m", "i", "n", " ", "U", "s", "e", "r">>

UserName == <<"T", "e", "s", "t", " ", "U", "s", "e", "r">>

FormerName == <<"F", "o", "r", "m", "e", "r", " ", "A", "d", "m", "i", "n">>

AdminPassword == <<"a", "d", "m", "i", "n", "1", "2", "3">>

UserPassword == <<"P", "a", "s", "s", "w", "0", "r", "d">>

\* The users of a seeded deployment: the admin created by the seed script,
\* a registered user, and an admin account that has been deactivated.
SeedUsers ==
    (1 :> [name |-> AdminName, email |-> AdminEmail, password |-> AdminPassword,
           role |-> "admin", isActive |-> TRUE])
    @@ (2 :> [name |-> UserName, email |-> UserEmail, password |-> UserPassword,
              role |-> "user", isActive |-> TRUE])
    @@ (3 :> [name |-> FormerName, email |-> FormerEmail, password |-> AdminPassword,
              role |-> "admin", isActive |-> FALSE])

\* The user ids a verified token may carry: the seeded users and one that
\* is not in the collection.
TokenUserIds == 1..4

\* What authenticate gets from User.findById(decoded.userId) and makes of
\* it: no user, a user that is not active, or req.user with its role.
FindUser(uid) ==
    IF uid \notin DOMAIN users THEN "absent"
    ELSE IF ~users[uid].isActive THEN "inactive"
    ELSE users[uid].role

\* router.<method>(path, adminOnly, ..., controller): the controller is the
\* next() of an adminOnly that has sent no response.
Admitted == request.op = "adminOnly" /\ response = NoResponse

AdminInit ==
    /\ InitCollections
    /\ users = SeedUsers
    /\ nextUid = 4
    /\ nodeEnv = "production"

AdminNext ==
    \/ \E header \in AuthHeaders, uid \in TokenUserIds : adminOnly(header, FindUser(uid))
    \/ adminOnly("valid", "storeError")
    \/ \E body \in ViewCreateBodies : Admitted /\ nextPid <= 1 /\ createProperty(body)
    \/ \E id \in AbsentIds : Admitted /\ updateProperty(id, [category |-> "Commercial"])
    \/ \E id \in AbsentIds : Admitted /\ deleteProperty(id)
    \/ \E body \in LifecycleBodies : nextCid <= 1 /\ submitContact(body)
    \/ \E id \in AbsentIds : Admitted /\ updateContact(id, [status |-> "resolved"])
    \/ \E id \in AbsentIds : Admitted /\ markAsContacted(id, Empty)
    \/ \E id \in AbsentIds : Admitted /\ deleteContact(id)
    \/ Admitted /\ nextSid <= 1 /\ createService([title |-> "Valuation"])
    \/ \E id \in AbsentIds : Admitted /\ updateService(id, [price |-> 6])
    \/ \E id \in AbsentIds : Admitted /\ deleteService(id)

AdminSpec == AdminInit /\ [][AdminNext]_vars

\* The controllers routed behind adminOnly.
AdminOps ==
    {"createProperty", "updateProperty", "deleteProperty",
     "updateContact", "markAsContacted", "deleteContact",
     "createService", "updateService", "deleteService"}

\* C21: a request on an admin route without a valid bearer token of an
\* existing, active user is answered UNAUTHORIZED (401), one of an
\* authenticated user who is not an admin is answered FORBIDDEN (403); in
\* both cases no collection changes, and an admin controller runs only for
\* a request that carried the valid token of an active admin.
C21_AdminRoutesRequireAdmin ==
    /\ [](request.op = "adminOnly" =>
            /\ (request.header # "valid" \/ request.user \in {"absent", "inactive"})
                 => /\ ~response.success
                    /\ response.status = 401
                    /\ response.code = "UNAUTHORIZED"
            /\ (request.header = "valid" /\ request.user \in UserRoles \ {"admin"})
                 => /\ ~response.success
                    /\ response.status = 403
                    /\ response.code = "FORBIDDEN")
    /\ [][request'.op = "adminOnly"
             => UNCHANGED <<propVars, contactVars, serviceVars, userVars>>]_vars
    /\ [][request'.op \in AdminOps
             => /\ request.op = "adminOnly"
                /\ request.header = "valid"
                /\ request.user = "admin"]_vars

\* A listing created by the admin is in the store, and the request of an
\* authenticated non-admin has just been refused.
C21_Witness ==
    /\ properties # Empty
    /\ request.op = "adminOnly"
    /\ request.header = "valid"
    /\ request.user = "user"
    /\ response.code = "FORBIDDEN"

(***************************************************************************)
(* The validation chains in front of submitContact and getProperty.        *)
(***************************************************************************)
NameMinLength == 2

NameMaxLength == 100

HexChars == <<"0", "1", "2", "3", "4", "5", "6", "7", "8", "9",
              "a", "b", "c", "d", "e", "f", "A", "B", "C", "D", "E", "F">>

IsHexChar(c) == \E i \in 1..Len(HexChars) : HexChars[i] = c

HexVal(c) == LET i == CHOOSE j \in 1..Len(HexChars) : HexChars[j] = c
             IN IF i <= 16 THEN i - 1 ELSE i - 7

ObjectIdLength == 24

\* isMongoId(): a hexadecimal string of 24 characters.
IsMongoId(t) == Len(t) = ObjectIdLength /\ \A i \in 1..Len(t) : IsHexChar(t[i])

\* The _id an ObjectId text denotes: the number its hexadecimal digits spell.
RECURSIVE ParseObjectId(_)
ParseObjectId(t) ==
    IF Len(t) = 0 THEN 0
    ELSE 16 * ParseObjectId(SubSeq(t, 1, Len(t) - 1)) + HexVal(t[Len(t)])

\* The ObjectId text of the _id n < 16.
ObjectIdText(n) == [i \in 1..ObjectIdLength |->
                       IF i < ObjectIdLength THEN "0" ELSE HexChars[n + 1]]

\* isEmail(): one "@" with a local part before it and, after it, a domain
\* of at least two non-empty labels.
IsEmail(t) ==
    /\ Cardinality({i \in 1..Len(t) : t[i] = "@"}) = 1
    /\ LET at == CHOOSE i \in 1..Len(t) : t[i] = "@"
       IN /\ at > 1
          /\ \E dot \in (at + 2)..(Len(t) - 1) : t[dot] = "."
          /\ t[at + 1] # "."
          /\ t[Len(t)] # "."
          /\ \A i \in 1..Len(t) : t[i] # " "

ContactMethods == {"email", "phone", "both"}

\* validateContact: the fields whose validators fail on body (bodies carry
\* no phone and no propertyId here).  A field that is missing is validated
\* as the empty string.
ContactFieldErrors(body) ==
    {f \in {"name"} : LET n == Len(Trim(Get(body, "name", <<>>)))
                      IN n < NameMinLength \/ n > NameMaxLength}
    \cup {f \in {"email"} : ~IsEmail(Trim(Get(body, "email", <<>>)))}
    \cup {f \in {"subject"} : Has(body, "subject")
                                 /\ Len(Trim(body.subject)) > SubjectMaxLength}
    \cup {f \in {"message"} : LET n == Len(Trim(Get(body, "message", <<>>)))
                              IN n < MessageMinLength \/ n > MessageMaxLength}
    \cup {f \in {"preferredContactMethod"} :
             Has(body, "preferredContactMethod")
                /\ body.preferredContactMethod \notin ContactMethods}

\* The 400 sent by handleValidationErrors, with one detail per field.
ValidationFailure(op, fields) ==
    Assign(Failure(op, 400, "VALIDATION_ERROR"),
           [errorKeys |-> {"code", "message", "details"}, details |-> fields])

\* validateContact, mutated: only the message is validated.
validateContactMessageOnly(body) ==
    IF ContactFieldErrors(body) \cap {"message"} # {}
      THEN /\ request' = [op |-> "submitContact", body |-> body]
           /\ storeCalls' = <<>>
           /\ response' = ValidationFailure("submitContact", {"message"})
           /\ UNCHANGED <<propVars, contactVars, now, crawl, viewVars, envVars, serviceVars>>
      ELSE submitContact(body)

\* router.post('/', validateContact, submitContact): the chain ends in
\* handleValidationErrors, which answers 400 or calls next().
validateContact(body) ==
    IF ContactFieldErrors(body) # {}
      THEN /\ request' = [op |-> "submitContact", body |-> body]
           /\ storeCalls' = <<>>
           /\ response' = ValidationFailure("submitContact", ContactFieldErrors(body))
           /\ UNCHANGED <<propVars, contactVars, now, crawl, viewVars, envVars, serviceVars>>
      ELSE submitContact(body)

\* router.get('/:id', validateObjectId(), getProperty)
validateObjectId(param) ==
    IF ~IsMongoId(param)
      THEN /\ request' = [op |-> "getProperty", param |-> param]
           /\ storeCalls' = <<>>
           /\ response' = ValidationFailure("getProperty", {"id"})
           /\ crawl' = NoCrawl
           /\ UNCHANGED <<propVars, contactVars, now, viewVars, envVars, serviceVars>>
      ELSE getProperty(ParseObjectId(param))

NameTest == <<"T", "e", "s", "t">>

EmailTest == <<"t", "@", "x", ".", "i", "o">>

EmailBad == <<"t", "@", "x">>

ValidationBodies ==
    { Assign(a, Assign(b, Assign(c, d))) :
        a \in Opt("name", {NameTest, <<"T", " ">>}),
        b \in Opt("email", {EmailTest, EmailBad}),
        c \in Opt("message", {MsgScenario, MsgShort}),
        d \in Opt("preferredContactMethod", {"email", "fax"}) }

InvalidId == <<"i", "n", "v", "a", "l", "i", "d", "-", "i", "d">>

IdParams == {InvalidId, [ObjectIdText(1) EXCEPT ![1] = "g"], ObjectIdText(1), ObjectIdText(2)}

ValidationNext ==
    \/ \E body \in ViewCreateBodies : nextPid <= 1 /\ createProperty(body)
    \/ \E param \in IdParams : nextRid <= MaxRid /\ saves = {} /\ validateObjectId(param)
    \/ \E s \in saves : saveViews(s, TRUE)
    \/ \E body \in ValidationBodies :
          /\ ContactFieldErrors(body) = {} => nextCid <= MaxCid
          /\ validateContact(body)

ValidationSpec == Init /\ [][ValidationNext]_vars

\* C22: a submitContact whose body fails validation, and a getProperty
\* whose id is not an object id, are answered 400 VALIDATION_ERROR with the
\* offending fields as details, without a call on the store: no document is
\* created, modified or read by the request (a save started by an earlier
\* read may still settle).
C22_InvalidInputStopsAtValidation ==
    /\ []((request.op = "submitContact" /\ ContactFieldErrors(request.body) # {})
            => /\ ~response.success
               /\ response.status = 400
               /\ response.code = "VALIDATION_ERROR"
               /\ response.details = ContactFieldErrors(request.body)
               /\ storeCalls = <<>>)
    /\ []((request.op = "getProperty" /\ Has(request, "param"))
            => /\ ~IsMongoId(request.param)
               /\ ~response.success
               /\ response.status = 400
               /\ response.code = "VALIDATION_ERROR"
               /\ response.details = {"id"}
               /\ storeCalls = <<>>)
    /\ []((request.op = "getProperty" /\ Has(request, "id"))
            => \E param \in IdParams : IsMongoId(param) /\ ParseObjectId(param) = request.id)
    /\ [][(/\ Settled = {}
           /\ \/ /\ request'.op = "submitContact"
                 /\ ContactFieldErrors(request'.body) # {}
              \/ /\ request'.op = "getProperty"
                 /\ Has(request', "param"))
            => UNCHANGED <<propVars, contactVars, serviceVars, saves, nextRid>>]_vars

\* With a listing and a contact stored, a body holding only a name has
\* been refused for its email and its message.
C22_Witness ==
    /\ properties # Empty
    /\ contacts # Empty
    /\ request.op = "submitContact"
    /\ request.body = [name |-> NameTest]
    /\ response.code = "VALIDATION_ERROR"
    /\ response.details = {"email", "message"}

\* With a listing stored, a read by an id that is no object id has been
\* refused.
C22_WitnessObjectId ==
    /\ properties # Empty
    /\ request.op = "getProperty"
    /\ Has(request, "param")
    /\ request.param = InvalidId
    /\ response.details = {"id"}

(***************************************************************************)
(* The auth routes: register, create-admin, profile, password, role.       *)
(***************************************************************************)
MaxUid == 4          \* the last user id handed out in one run

PasswordMinLength == 6

\* The role a user document gets when none is given to User.create.
DefaultRole == "user"

IsLowerChar(c) == \E i \in 1..Len(LowerChars) : LowerChars[i] = c

IsUpperChar(c) == \E i \in 1..Len(UpperChars) : UpperChars[i] = c

\* validateUserRegistration: the fields whose validators fail on body
\* (bodies carry no phone here).
UserFieldErrors(body) ==
    {f \in {"email"} : ~IsEmail(Trim(Get(body, "email", <<>>)))}
    \cup {f \in {"password"} :
             LET pw == Get(body, "password", <<>>)
             IN \/ Len(pw) < PasswordMinLength
                \/ ~\E i \in 1..Len(pw) : IsLowerChar(pw[i])
                \/ ~\E i \in 1..Len(pw) : IsUpperChar(pw[i])
                \/ ~\E i \in 1..Len(pw) : IsDigit(pw[i])}
    \cup {f \in {"name"} : LET n == Len(Trim(Get(body, "name", <<>>)))
                           IN n < NameMinLength \/ n > NameMaxLength}

\* trim().normalizeEmail() on a valid address: the address in lower case.
NormalizeEmail(t) == ToLowerCase(Trim(t))

\* User.findOne({ email })
EmailTaken(email) == \E u \in DOMAIN users : users[u].email = email

\* The user object of the auth responses.
UserJSON(uid, user) == Assign([id |-> uid], Strict(user, {"name", "email", "role", "phone"}))

\* POST /api/v1/auth/register = [validateUserRegistration, register].  The
\* request may carry an Authorization header (`header`, and `user` for what
\* its token denotes); nothing on the route reads it.
register(header, user, body) ==
    /\ request' = [op |-> "register", header |-> header, user |-> user, body |-> body]
    /\ UNCHANGED <<propVars, contactVars, now, crawl, viewVars, nodeEnv, hits, inflight,
                   serviceVars>>
    /\ IF UserFieldErrors(body) # {}
         THEN /\ storeCalls' = <<>>
              /\ response' = ValidationFailure("register", UserFieldErrors(body))
              /\ UNCHANGED userVars
         ELSE LET email == NormalizeEmail(body.email)
                  doc == Assign([name |-> Trim(body.name), email |-> email,
                                 password |-> body.password, role |-> DefaultRole,
                                 isActive |-> TRUE],
                                Strict(body, {"phone"}))
              IN IF EmailTaken(email)
                   THEN /\ storeCalls' = <<Call("findOne")>>
                        /\ response' = Failure("register", 400, "DUPLICATE_FIELD")
                        /\ UNCHANGED userVars
                   ELSE /\ users' = (nextUid :> doc) @@ users
                        /\ nextUid' = nextUid + 1
                        /\ storeCalls' = <<Call("findOne"), Call("insertOne")>>
                        /\ response' = Success("register", 201,
                                         [user |-> UserJSON(nextUid, doc), token |-> nextUid])

\* POST /api/v1/auth/create-admin.  The validators of the route are not
\* followed by handleValidationErrors, so the handler gets every body; an
\* error of User.createAdmin (the address is taken, the document does not
\* validate) is answered 400.
createAdmin(body) ==
    /\ request' = [op |-> "createAdmin", body |-> body]
    /\ UNCHANGED <<propVars, contactVars, now, crawl, viewVars, nodeEnv, hits, inflight,
                   serviceVars>>
    /\ IF nodeEnv = "production"
         THEN /\ storeCalls' = <<>>
              /\ response' = Failure("createAdmin", 403, "FORBIDDEN")
              /\ UNCHANGED userVars
         ELSE IF \/ ~Has(body, "email") \/ ~Has(body, "password") \/ ~Has(body, "name")
                 \/ EmailTaken(ToLowerCase(Trim(body.email)))
           THEN /\ storeCalls' = <<Call("createAdmin")>>
                /\ response' = Failure("createAdmin", 400, "VALIDATION_ERROR")
                /\ UNCHANGED userVars
           ELSE LET doc == [name |-> Trim(body.name),
                            email |-> ToLowerCase(Trim(body.email)),
                            password |-> body.password, role |-> "admin",
                            isActive |-> TRUE]
                IN /\ users' = (nextUid :> doc) @@ users
                   /\ nextUid' = nextUid + 1
                   /\ storeCalls' = <<Call("createAdmin")>>
                   /\ response' = Success("createAdmin", 201,
                                    [user |-> UserJSON(nextUid, doc), token |-> nextUid])

\* authenticate, as mounted alone on /me and /password: req.user is the
\* user of the token.
authenticate(header, uid) ==
    /\ crawl' = NoCrawl
    /\ UNCHANGED <<propVars, contactVars, now, viewVars, envVars, serviceVars>>
    /\ IF header # "valid"
         THEN /\ request' = [op |-> "authenticate", header |-> header]
              /\ storeCalls' = <<>>
              /\ response' = Failure("authenticate", 401, "UNAUTHORIZED")
       ELSE IF FindUser(uid) \in {"absent", "inactive"}
         THEN /\ request' = [op |-> "authenticate", header |-> header]
              /\ storeCalls' = <<Call("findById")>>
              /\ response' = Failure("authenticate", 401, "UNAUTHORIZED")
       ELSE /\ request' = [op |-> "authenticate", header |-> header,
                           userId |-> uid, user |-> users[uid]]
            /\ storeCalls' = <<Call("findById")>>
            /\ response' = NoResponse

\* router.<method>(path, authenticate, ..., controller)
Authenticated == request.op = "authenticate" /\ response = NoResponse

\* `if (x)` on a text of the body.
Truthy(body, k) == Has(body, k) /\ Len(body[k]) > 0

\* updateProfile, mutated: the whole body is handed to findByIdAndUpdate.
updateProfileWholeBody(body) ==
    LET uid == request.userId
        user == Assign(users[uid], body)
    IN /\ request' = [op |-> "updateProfile", userId |-> uid, body |-> body]
       /\ users' = [users EXCEPT ![uid] = user]
       /\ storeCalls' = <<Call("findOneAndUpdate")>>
       /\ response' = Success("updateProfile", 200,
                        Assign(UserJSON(uid, user), Strict(user, {"avatar", "preferences"})))
       /\ UNCHANGED <<propVars, contactVars, now, crawl, viewVars, nodeEnv, hits, inflight,
                      serviceVars, nextUid>>

\* PUT /api/v1/auth/me, for the req.user that authenticate has set.
updateProfile(body) ==
    LET uid == request.userId
        updateData ==
          Assign(Assign(Assign(IF Truthy(body, "name") THEN [name |-> body.name] ELSE Empty,
                               IF Truthy(body, "phone") THEN [phone |-> body.phone] ELSE Empty),
                        IF Truthy(body, "avatar") THEN [avatar |-> body.avatar] ELSE Empty),
                 IF Has(body, "preferences")
                   THEN [preferences |-> Assign(Get(request.user, "preferences", Empty),
                                                body.preferences)]
                   ELSE Empty)
        user == Assign(users[uid], updateData)
    IN /\ request' = [op |-> "updateProfile", userId |-> uid, body |-> body]
       /\ users' = [users EXCEPT ![uid] = user]
       /\ storeCalls' = <<Call("findOneAndUpdate")>>
       /\ response' = Success("updateProfile", 200,
                        Assign(UserJSON(uid, user), Strict(user, {"avatar", "preferences"})))
       /\ UNCHANGED <<propVars, contactVars, now, crawl, viewVars, nodeEnv, hits, inflight,
                      serviceVars, nextUid>>

\* PUT /api/v1/auth/password, for the req.user that authenticate has set.
changePassword(body) ==
    LET uid == request.userId
    IN /\ request' = [op |-> "changePassword", userId |-> uid, body |-> body]
       /\ UNCHANGED <<propVars, contactVars, now, crawl, viewVars, nodeEnv, hits, inflight,
                      serviceVars, nextUid>>
       /\ IF body.currentPassword # users[uid].password
            THEN /\ storeCalls' = <<Call("findById")>>
                 /\ response' = Failure("changePassword", 400, "VALIDATION_ERROR")
                 /\ UNCHANGED users
            ELSE /\ users' = [users EXCEPT ![uid] = Assign(@, [password |-> body.newPassword])]
                 /\ storeCalls' = <<Call("findById"), Call("updateOne")>>
                 /\ response' = Success("changePassword", 200, Empty)

\* PUT /api/v1/auth/users/:id/role, behind adminOnly.
updateUserRole(id, body) ==
    /\ request' = [op |-> "updateUserRole", id |-> id, body |-> body]
    /\ UNCHANGED <<propVars, contactVars, now, crawl, viewVars, nodeEnv, hits, inflight,
                   serviceVars, nextUid>>
    /\ IF ~Has(body, "role") \/ body.role \notin UserRoles
         THEN /\ storeCalls' = <<>>
              /\ response' = Failure("updateUserRole", 400, "VALIDATION_ERROR")
              /\ UNCHANGED users
       ELSE IF id \notin DOMAIN users
         THEN /\ storeCalls' = <<Call("findOneAndUpdate")>>
              /\ response' = Failure("updateUserRole", 404, "NOT_FOUND")
              /\ UNCHANGED users
       ELSE /\ users' = [users EXCEPT ![id] = Assign(@, [role |-> body.role])]
            /\ storeCalls' = <<Call("findOneAndUpdate")>>
            /\ response' = Success("updateUserRole", 200,
                             [user |-> UserJSON(id, users'[id])])

NewEmail == <<"N", "e", "w", "@", "E", "x", "a", "m", "p", "l", "e", ".", "c", "o", "m">>

NewName == <<"N", "e", "w", " ", "U", "s", "e", "r">>

NewPassword == <<"S", "e", "c", "r", "e", "t", "1", "2">>

WeakPassword == <<"s", "e", "c", "r", "e", "t">>

RegisterBodies ==
    {[name |-> NewName, email |-> NewEmail, password |-> NewPassword, role |-> "admin"],
     [name |-> NewName, email |-> UserEmail, password |-> NewPassword],
     [name |-> NewName, email |-> NewEmail, password |-> WeakPassword]}

CreateAdminBodies == {[name |-> NewName, email |-> NewEmail, password |-> WeakPassword],
                      [name |-> NewName, email |-> AdminEmail, password |-> NewPassword]}

ProfileBodies ==
    {[name |-> NewName, role |-> "admin"],
     [name |-> <<>>, preferences |-> [theme |-> "dark"], role |-> "admin"]}

PasswordBodies ==
    {[currentPassword |-> p, newPassword |-> NewPassword, role |-> "admin"] :
        p \in {UserPassword, WeakPassword}}

RoleBodies == Opt("role", {"agent", "admin", "owner"})

AuthInit ==
    /\ InitCollections
    /\ users = SeedUsers
    /\ nextUid = 4
    /\ nodeEnv = "development"

AuthNext ==
    \/ \E uid \in 2..MaxUid : authenticate("valid", uid)
    \/ authenticate("none", 2)
    \/ \E uid \in 1..2 : adminOnly("valid", FindUser(uid))
    \/ \E header \in {"none", "valid"}, body \in RegisterBodies :
          nextUid <= MaxUid /\ register(header, FindUser(1), body)
    \/ \E body \in CreateAdminBodies : nextUid <= MaxUid /\ createAdmin(body)
    \/ \E body \in ProfileBodies : Authenticated /\ updateProfile(body)
    \/ \E body \in PasswordBodies : Authenticated /\ changePassword(body)
    \/ \E id \in 2..(MaxUid + 1), body \in RoleBodies : Admitted /\ updateUserRole(id, body)

AuthSpec == AuthInit /\ [][AuthNext]_vars

\* C23: POST /api/v1/auth/register creates a user only for a request that
\* carries the valid bearer token of an admin; a request without one is
\* refused and creates no user.
C23_RegisterIsAdminOnly ==
    /\ [][(request'.op = "register" /\ users' # users)
             => (request'.header = "valid" /\ request'.user = "admin")]_vars
    /\ []((request.op = "register" /\ ~(request.header = "valid" /\ request.user = "admin"))
            => ~response.success)

\* What the code does hold: a registration creates exactly one user, with
\* the name, address and password of the body, the default role, active.
RegisterCreatesPlainUser ==
    [][(request'.op = "register" /\ users' # users)
          => /\ DOMAIN users' = DOMAIN users \cup {nextUid}
             /\ \A u \in DOMAIN users : users'[u] = users[u]
             /\ users'[nextUid].role = DefaultRole
             /\ users'[nextUid].email = NormalizeEmail(request'.body.email)]_vars

(***************************************************************************)
(* create-admin in every environment.                                      *)
(***************************************************************************)
\* The values NODE_ENV may have when the process starts; "undefined" is the
\* variable not being set.
AuthNodeEnvs == NodeEnvs \cup {"test", "undefined"}

CreateAdminInit ==
    /\ InitCollections
    /\ users = SeedUsers
    /\ nextUid = 4
    /\ nodeEnv \in AuthNodeEnvs

CreateAdminNext ==
    \/ \E body \in CreateAdminBodies : nextUid <= MaxUid /\ createAdmin(body)
    \/ \E uid \in {1, MaxUid} : adminOnly("valid", FindUser(uid))
    \/ \E id \in {2, MaxUid}, body \in RoleBodies : Admitted /\ updateUserRole(id, body)

CreateAdminSpec == CreateAdminInit /\ [][CreateAdminNext]_vars

\* C24: createAdmin creates an admin user and returns a token only when
\* NODE_ENV is 'development'; with any other value, and with none, it
\* answers FORBIDDEN (403) and creates no user.
C24_CreateAdminInDevelopmentOnly ==
    /\ [][(request'.op = "createAdmin" /\ users' # users) => nodeEnv = "development"]_vars
    /\ []((request.op = "createAdmin" /\ nodeEnv # "development")
            => /\ ~response.success
               /\ response.status = 403
               /\ response.code = "FORBIDDEN")

\* What the code does hold: createAdmin is refused in production, and only
\* there.
CreateAdminRefusedInProduction ==
    /\ [][(request'.op = "createAdmin" /\ users' # users) => nodeEnv # "production"]_vars
    /\ []((request.op = "createAdmin" /\ nodeEnv = "production")
            => /\ response.status = 403
               /\ response.code = "FORBIDDEN")
    /\ []((request.op = "createAdmin" /\ ~response.success /\ response.code = "FORBIDDEN")
            => nodeEnv = "production")

ProfilePaths == {"name", "phone", "avatar", "preferences"}

RegisterPaths == {"name", "email", "password", "phone"}

\* The fields User.create fills in by itself.
UserDefaultPaths == {"role", "isActive"}

\* C30: register, updateProfile and changePassword leave the role of every
\* user as it is, whatever the body carries: register stores only the name,
\* email, password and phone of the body (the new user gets the default
\* role), updateProfile writes only name, phone, avatar and preferences, on
\* the caller's own record.  The role of a user changes only in
\* updateUserRole, to a role among 'user', 'agent', 'admin'; any other
\* role is answered VALIDATION_ERROR and the user is left unchanged.
C30_RoleChangesOnlyInUpdateUserRole ==
    /\ [][request'.op \in {"register", "updateProfile", "changePassword"}
            => \A u \in DOMAIN users : u \in DOMAIN users' /\ users'[u].role = users[u].role]_vars
    /\ [][request'.op = "register"
            => \A u \in (DOMAIN users') \ (DOMAIN users) :
                  /\ users'[u].role = DefaultRole
                  /\ DOMAIN users'[u] \subseteq RegisterPaths \cup UserDefaultPaths
                  /\ \A k \in (DOMAIN users'[u]) \cap {"password", "phone"} :
                        users'[u][k] = request'.body[k]]_vars
    /\ [][request'.op = "updateProfile"
            => \A u \in DOMAIN users :
                  /\ u # request'.userId => users'[u] = users[u]
                  /\ \A k \in (DOMAIN users'[u]) \ ProfilePaths :
                        k \in DOMAIN users[u] /\ users'[u][k] = users[u][k]]_vars
    /\ [][(\E u \in DOMAIN users : u \in DOMAIN users' /\ users'[u].role # users[u].role)
            => /\ request'.op = "updateUserRole"
               /\ Has(request'.body, "role")
               /\ request'.body.role \in UserRoles
               /\ \A u \in DOMAIN users :
                     users'[u] = IF u = request'.id
                                   THEN Assign(users[u], [role |-> request'.body.role])
                                   ELSE users[u]]_vars
    /\ [][(/\ request'.op = "updateUserRole"
           /\ (~Has(request'.body, "role") \/ request'.body.role \notin UserRoles))
            => /\ users' = users
               /\ ~response'.success
               /\ response'.code = "VALIDATION_ERROR"]_vars

\* A registered user has sent role 'admin' with a profile update: the name
\* is changed, the role is not; and an admin has been created on that run.
C30_Witness ==
    /\ request.op = "updateProfile"
    /\ Has(request.body, "role")
    /\ request.body.role = "admin"
    /\ users[request.userId].name = NewName
    /\ users[request.userId].role = "user"
    /\ nextUid > MaxUid

\* An admin has made the registered user an agent.
C30_WitnessRoleUpdate ==
    /\ request.op = "updateUserRole"
    /\ response.success
    /\ users[2].role = "agent"

(***************************************************************************)
(* The update handlers step by step: findById, an await during which other *)
(* requests are served, then findByIdAndUpdate and the response.           *)
(***************************************************************************)
MaxInflight == 1     \* handlers waiting between two calls on the store

\* The error of reading a member of null.
NullDereference ==
    [name |-> "TypeError", message |-> "Cannot read properties of null",
     stack |-> "TypeError: Cannot read properties of null"]

\* updateProperty up to its first await: the lookup.
updatePropertyFind(id, body) ==
    /\ request' = [op |-> "updateProperty", id |-> id]
    /\ crawl' = NoCrawl
    /\ UNCHANGED <<propVars, contactVars, now, viewVars, nodeEnv, hits, userVars, serviceVars>>
    /\ IF ~ValidatePropertyUpdate(body)
         THEN /\ storeCalls' = <<>>
              /\ response' = Failure("updateProperty", 400, "VALIDATION_ERROR")
              /\ UNCHANGED inflight
       ELSE IF id \notin DOMAIN properties
         THEN /\ storeCalls' = <<Call("findById")>>
              /\ response' = Failure("updateProperty", 404, "NOT_FOUND")
              /\ UNCHANGED inflight
       ELSE /\ storeCalls' = <<Call("findById")>>
            /\ response' = NoResponse
            /\ inflight' = inflight \cup {[op |-> "updateProperty", id |-> id, body |-> body]}

\* updateProperty from findByIdAndUpdate on: the result, null when the
\* document is gone, is dereferenced for the response.
updatePropertyWrite(h) ==
    /\ h \in inflight
    /\ h.op = "updateProperty"
    /\ inflight' = inflight \ {h}
    /\ request' = [op |-> "updateProperty", id |-> h.id]
    /\ crawl' = NoCrawl
    /\ storeCalls' = <<Call("findOneAndUpdate")>>
    /\ UNCHANGED <<nextPid, contactVars, now, viewVars, nodeEnv, hits, userVars, serviceVars>>
    /\ IF ~ValidPropertyUpdate(h.body)
         THEN /\ response' = Failure("updateProperty", 400, "VALIDATION_ERROR")
              /\ UNCHANGED properties
       ELSE IF h.id \notin DOMAIN properties
         THEN /\ response' = ErrorHandler("updateProperty", NullDereference, nodeEnv)
              /\ UNCHANGED properties
       ELSE LET updated == Assign(properties[h.id], Strict(h.body, PropertyPaths))
            IN /\ properties' = [properties EXCEPT ![h.id] = updated]
               /\ response' = Success("updateProperty", 200,
                      Assign([id |-> h.id, price |-> updated.price],
                             Strict(updated, {"priceFormatted"})))

\* updateContact up to its first await: the lookup; the handler keeps the
\* status it has read.
updateContactFind(id, body) ==
    /\ request' = [op |-> "updateContact", id |-> id, body |-> body]
    /\ UNCHANGED <<propVars, contactVars, now, crawl, viewVars, nodeEnv, hits, userVars,
                   serviceVars>>
    /\ storeCalls' = <<Call("findById")>>
    /\ IF id \notin DOMAIN contacts
         THEN /\ response' = Failure("updateContact", 404, "NOT_FOUND")
              /\ UNCHANGED inflight
         ELSE /\ response' = NoResponse
              /\ inflight' = inflight \cup {[op |-> "updateContact", id |-> id, body |-> body,
                                             status |-> contacts[id].status]}

\* The updateData updateContact builds from the body and the status read.
ContactUpdateData(body, status) ==
    LET given(k) == Has(body, k) /\ body[k] # ""
    IN Assign(Assign(Assign(Assign(
         IF given("status") THEN [status |-> body.status] ELSE Empty,
         IF Has(body, "notes") /\ Len(body.notes) > 0 THEN [notes |-> body.notes] ELSE Empty),
         IF given("assignedTo") THEN [assignedTo |-> body.assignedTo] ELSE Empty),
         IF given("priority") THEN [priority |-> body.priority] ELSE Empty),
         IF Has(body, "status") /\ body.status = "contacted" /\ status # "contacted"
           THEN [responseDate |-> now] ELSE Empty)

\* updateContact from findByIdAndUpdate on: the result is sent as data,
\* null (no member) when the document is gone.
updateContactWrite(h) ==
    /\ h \in inflight
    /\ h.op = "updateContact"
    /\ inflight' = inflight \ {h}
    /\ request' = [op |-> "updateContact", id |-> h.id, body |-> h.body]
    /\ storeCalls' = <<Call("findOneAndUpdate")>>
    /\ UNCHANGED <<propVars, nextCid, now, crawl, viewVars, nodeEnv, hits, userVars,
                   serviceVars>>
    /\ LET updateData == ContactUpdateData(h.body, h.status)
       IN IF ~ValidContactPaths(updateData, DOMAIN updateData)
            THEN /\ response' = Failure("updateContact", 400, "VALIDATION_ERROR")
                 /\ UNCHANGED contacts
          ELSE IF h.id \notin DOMAIN contacts
            THEN /\ response' = Success("updateContact", 200, Empty)
                 /\ UNCHANGED contacts
          ELSE LET updated == Assign(contacts[h.id], CastContact(updateData))
               IN /\ contacts' = [contacts EXCEPT ![h.id] = updated]
                  /\ response' = Success("updateContact", 200,
                         Assign([id |-> h.id, status |-> updated.status,
                                 priority |-> updated.priority],
                                Strict(updated, {"responseDate"})))

\* updateService up to its first await: the lookup.
updateServiceFind(id, body) ==
    /\ request' = [op |-> "updateService", id |-> id]
    /\ crawl' = NoCrawl
    /\ UNCHANGED <<propVars, contactVars, now, viewVars, nodeEnv, hits, userVars, serviceVars>>
    /\ storeCalls' = <<Call("findById")>>
    /\ IF id \notin DOMAIN services
         THEN /\ response' = Failure("updateService", 404, "NOT_FOUND")
              /\ UNCHANGED inflight
         ELSE /\ response' = NoResponse
              /\ inflight' = inflight \cup {[op |-> "updateService", id |-> id, body |-> body]}

\* updateService from findByIdAndUpdate on: the result is sent as data,
\* null (no member) when the document is gone.
updateServiceWrite(h) ==
    /\ h \in inflight
    /\ h.op = "updateService"
    /\ inflight' = inflight \ {h}
    /\ request' = [op |-> "updateService", id |-> h.id]
    /\ crawl' = NoCrawl
    /\ storeCalls' = <<Call("findOneAndUpdate")>>
    /\ UNCHANGED <<propVars, contactVars, now, viewVars, nodeEnv, hits, userVars, nextSid,
                   serviceSaves>>
    /\ IF ~ValidServicePaths(h.body, DOMAIN h.body)
         THEN /\ response' = ErrorHandler("updateService",
                     [name |-> "ValidationError",
                      message |-> "Validation failed",
                      errors |-> "price",
                      stack |-> "ValidationError: Validation failed"],
                     nodeEnv)
              /\ UNCHANGED services
       ELSE IF h.id \notin DOMAIN services
         THEN /\ response' = Success("updateService", 200, Empty)
              /\ UNCHANGED services
       ELSE LET updated == Assign(services[h.id], Strict(h.body, ServicePaths))
            IN /\ services' = [services EXCEPT ![h.id] = updated]
               /\ response' = Success("updateService", 200, ServiceJSON(h.id, updated))

RaceNext ==
    \/ \E body \in ViewCreateBodies : nextPid <= 1 /\ createProperty(body)
    \/ \E body \in {[category |-> "Commercial"], [price |-> 0]} :
          Cardinality(inflight) < MaxInflight /\ updatePropertyFind(1, body)
    \/ \E h \in inflight : updatePropertyWrite(h)
    \/ deleteProperty(1)
    \/ \E body \in LifecycleBodies : nextCid <= 1 /\ submitContact(body)
    \/ \E body \in {[status |-> "contacted"], [priority |-> "low"]} :
          Cardinality(inflight) < MaxInflight /\ updateContactFind(1, body)
    \/ \E h \in inflight : updateContactWrite(h)
    \/ deleteContact(1)
    \/ nextSid <= 1 /\ createService([title |-> "Valuation"])
    \/ \E body \in {[price |-> 6], [price |-> -1]} :
          Cardinality(inflight) < MaxInflight /\ updateServiceFind(1, body)
    \/ \E h \in inflight : updateServiceWrite(h)
    \/ deleteService(1)

RaceSpec == Init /\ [][RaceNext]_vars

UpdateOps == {"updateProperty", "updateContact", "updateService"}

\* The update h is waiting to write and its document is gone.
TargetGone(h) ==
    \/ h.op = "updateProperty" /\ h.id \notin DOMAIN properties
    \/ h.op = "updateContact" /\ h.id \notin DOMAIN contacts
    \/ h.op = "updateService" /\ h.id \notin DOMAIN services

\* C25: an update whose document was deleted between its lookup and its
\* write is answered NOT_FOUND; a successful update response carries the
\* document, never null, and no update is answered INTERNAL_ERROR.
C25_UpdateSafeAgainstDelete ==
    /\ []((request.op \in UpdateOps /\ response # NoResponse)
            => IF response.success THEN response.data # Empty
               ELSE response.code # "INTERNAL_ERROR")
    /\ [][\A h \in inflight \ inflight' :
             TargetGone(h) => (~response'.success /\ response'.code = "NOT_FOUND")]_vars

\* What the code does hold when no delete comes between the lookup and
\* the write: the update is answered with the document or a 4xx failure.
UpdateAnsweredWithoutDelete ==
    [][\A h \in inflight \ inflight' :
          ~TargetGone(h) => IF response'.success THEN response'.data # Empty
                            ELSE response'.status \in {400, 404}]_vars

(***************************************************************************)
(* The list handlers step by step: find, an await during which other       *)
(* requests are served, then countDocuments and the response.              *)
(***************************************************************************)
\* getProperties up to the await of find: the page (and, for reference, the
\* documents the query matched when find ran).
getPropertiesFind(q) ==
    /\ request' = [op |-> "getProperties", query |-> q]
    /\ UNCHANGED <<propVars, contactVars, now, viewVars, nodeEnv, hits, userVars, serviceVars>>
    /\ crawl' = NoCrawl
    /\ IF ~ValidatePropertyQuery(q)
         THEN /\ storeCalls' = <<>>
              /\ response' = Failure("getProperties", 400, "VALIDATION_ERROR")
              /\ UNCHANGED inflight
         ELSE LET query == SanitizePropertyQuery(q)
                  filter == PropertyFilter(query)
                  pageNum == IF Has(q, "page") THEN ParseInt(q.page) ELSE DefaultPage
                  limitNum == IF Has(q, "limit") THEN ParseInt(q.limit) ELSE DefaultLimit
                  skip == (pageNum - 1) * limitNum
                  sort == Get(q, "sort", DefaultSort)
              IN IF Has(filter, "or") /\ ~RegexValid(filter.or.regex)
                   THEN /\ storeCalls' = <<FindCall(skip, limitNum)>>
                        /\ response' = ErrorHandler("getProperties",
                                                    InvalidRegexError, nodeEnv)
                        /\ UNCHANGED inflight
                   ELSE \E page \in Windows(Find(filter), sort, skip, limitNum) :
                          /\ storeCalls' = <<FindCall(skip, limitNum)>>
                          /\ response' = NoResponse
                          /\ inflight' = inflight \cup
                                {[op |-> "getProperties", query |-> q, page |-> page,
                                  matched |-> Find(filter)]}

\* getProperties from countDocuments on, mutated: every document is counted.
getPropertiesCountAll(h) ==
    /\ h \in inflight
    /\ h.op = "getProperties"
    /\ inflight' = inflight \ {h}
    /\ request' = [op |-> "getProperties", query |-> h.query]
    /\ UNCHANGED <<propVars, contactVars, now, viewVars, nodeEnv, hits, userVars, serviceVars>>
    /\ LET q == h.query
           pageNum == IF Has(q, "page") THEN ParseInt(q.page) ELSE DefaultPage
           limitNum == IF Has(q, "limit") THEN ParseInt(q.limit) ELSE DefaultLimit
       IN /\ storeCalls' = <<Call("countDocuments")>>
          /\ response' = Success("getProperties", 200,
                 [properties |-> h.page,
                  pagination |-> Pagination(pageNum, limitNum,
                                            Cardinality(DOMAIN properties))])
          /\ crawl' = CrawlAfter(q, pageNum, h.page)

\* getProperties from countDocuments on: the total, the pagination object
\* and the response with the page found before.
getPropertiesCount(h) ==
    /\ h \in inflight
    /\ h.op = "getProperties"
    /\ inflight' = inflight \ {h}
    /\ request' = [op |-> "getProperties", query |-> h.query]
    /\ UNCHANGED <<propVars, contactVars, now, viewVars, nodeEnv, hits, userVars, serviceVars>>
    /\ LET q == h.query
           filter == PropertyFilter(SanitizePropertyQuery(q))
           pageNum == IF Has(q, "page") THEN ParseInt(q.page) ELSE DefaultPage
           limitNum == IF Has(q, "limit") THEN ParseInt(q.limit) ELSE DefaultLimit
       IN /\ storeCalls' = <<Call("countDocuments")>>
          /\ response' = Success("getProperties", 200,
                 [properties |-> h.page,
                  pagination |-> Pagination(pageNum, limitNum, CountDocuments(filter))])
          /\ crawl' = CrawlAfter(q, pageNum, h.page)

DefaultContactLimit == 20

\* The query getContacts builds (queries carry no search here).
ContactFilter(q) ==
    Assign(IF Has(q, "status") /\ q.status # "" THEN [status |-> q.status] ELSE Empty,
           IF Has(q, "priority") /\ q.priority # "" THEN [priority |-> q.priority] ELSE Empty)

ContactFind(f) ==
    {id \in DOMAIN contacts :
       /\ Has(f, "status") => contacts[id].status = f.status
       /\ Has(f, "priority") => contacts[id].priority = f.priority}

\* .sort('-createdAt'): a is before b.
ContactBefore(a, b) == contacts[a].createdAt > contacts[b].createdAt

\* The orders the store may give the first n of ids in.
RECURSIVE ContactOrders(_, _)
ContactOrders(ids, n) ==
    IF ids = {} \/ n <= 0 THEN {<<>>}
    ELSE UNION { { <<x>> \o t : t \in ContactOrders(ids \ {x}, n - 1) } :
                 x \in {x \in ids : \A y \in ids : ~ContactBefore(y, x)} }

\* .sort('-createdAt').skip(skip).limit(limit): every page the store may
\* return.
ContactWindows(ids, skip, limit) ==
    UNION { ContactOrders(ids \ S, limit) :
              S \in { S \in SUBSET ids :
                        /\ Cardinality(S) = Min(skip, Cardinality(ids))
                        /\ \A x \in S, y \in ids \ S : ~ContactBefore(y, x) } }

\* getContacts up to the await of find: the page.
getContactsFind(q) ==
    /\ request' = [op |-> "getContacts", query |-> q]
    /\ UNCHANGED <<propVars, contactVars, now, crawl, viewVars, nodeEnv, hits, userVars,
                   serviceVars>>
    /\ LET pageNum == IF Has(q, "page") THEN ParseInt(q.page) ELSE DefaultPage
           limitNum == IF Has(q, "limit") THEN ParseInt(q.limit) ELSE DefaultContactLimit
           skip == (pageNum - 1) * limitNum
       IN \E page \in ContactWindows(ContactFind(ContactFilter(q)), skip, limitNum) :
             /\ storeCalls' = <<FindCall(skip, limitNum)>>
             /\ response' = NoResponse
             /\ inflight' = inflight \cup
                   {[op |-> "getContacts", query |-> q, page |-> page,
                     matched |-> ContactFind(ContactFilter(q))]}

\* getContacts from countDocuments on.
getContactsCount(h) ==
    /\ h \in inflight
    /\ h.op = "getContacts"
    /\ inflight' = inflight \ {h}
    /\ request' = [op |-> "getContacts", query |-> h.query]
    /\ UNCHANGED <<propVars, contactVars, now, crawl, viewVars, nodeEnv, hits, userVars,
                   serviceVars>>
    /\ LET q == h.query
           pageNum == IF Has(q, "page") THEN ParseInt(q.page) ELSE DefaultPage
           limitNum == IF Has(q, "limit") THEN ParseInt(q.limit) ELSE DefaultContactLimit
       IN /\ storeCalls' = <<Call("countDocuments")>>
          /\ response' = Success("getContacts", 200,
                 [contacts |-> h.page,
                  pagination |-> Pagination(pageNum, limitNum,
                                            Cardinality(ContactFind(ContactFilter(q))))])

ListRaceQueries ==
    { Assign(a, b) : a \in Opt("page", {<<"2">>}), b \in Opt("limit", {<<"1">>}) }

ListRaceBodies == ViewCreateBodies \cup {Assign(b, [status |-> "Sold"]) : b \in ViewCreateBodies}

ListRaceNext ==
    \/ \E body \in ListRaceBodies : nextPid <= 2 /\ createProperty(body)
    \/ \E id \in 1..2 : deleteProperty(id)
    \/ \E q \in ListRaceQueries :
          Cardinality(inflight) < MaxInflight /\ getPropertiesFind(q)
    \/ \E h \in inflight : getPropertiesCount(h)
    \/ \E body \in LifecycleBodies : nextCid <= 1 /\ submitContact(body)
    \/ deleteContact(1)
    \/ \E q \in {Empty, [limit |-> <<"1">>]} :
          Cardinality(inflight) < MaxInflight /\ getContactsFind(q)
    \/ \E h \in inflight : getContactsCount(h)

ListRaceSpec == Init /\ [][ListRaceNext]_vars

\* The items and the pagination object of a list response.
ListItems ==
    IF response.op = "getProperties" THEN response.data.properties
    ELSE response.data.contacts

MatchedNow(h) ==
    IF h.op = "getProperties" THEN Find(PropertyFilter(SanitizePropertyQuery(h.query)))
    ELSE ContactFind(ContactFilter(h.query))

CounterNext ==
    \/ \E body \in ViewCreateBodies : nextPid <= 2 /\ createProperty(body)
    \/ \E id \in 1..2 : nextRid <= MaxRid + 1 /\ getProperty(id)
    \/ \E s \in saves, storeOk \in BOOLEAN : saveViews(s, storeOk)

CounterSpec == Init /\ [][CounterNext]_vars

\* C27, as stated: under any interleaving of getProperty requests the
\* stored views counter of a listing never decreases from one state to the
\* next.
C27_Original ==
    [][\A id \in (DOMAIN properties) \cap (DOMAIN properties') :
          properties'[id].views >= properties[id].views]_vars

\* C27: the save of a read sets the stored views counter to one more than
\* the count that read loaded, or leaves it as it is when the save fails,
\* and nothing else changes the counter: it never exceeds the number of
\* reads served, and it decreases only when the settling save belongs to a
\* read that loaded less than what is stored now.
C27_ViewsFollowTheSettlingRead ==
    /\ [][\A id \in (DOMAIN properties) \cap (DOMAIN properties') :
             properties'[id].views # properties[id].views
               => \E s \in saves \ saves' :
                     /\ s.id = id
                     /\ properties'[id].views = s.doc.views
                     /\ (properties'[id].views < properties[id].views
                           => s.doc.views - 1 < properties[id].views)]_vars
    /\ [](\A id \in DOMAIN properties :
             /\ properties[id].views >= 0
             /\ properties[id].views <= nextRid - 1)

\* Three reads, all saved: the third was answered with a count of 2 and
\* the stored counter is 1, written last by the save of an earlier read.
C27_Witness ==
    /\ 1 \in DOMAIN properties
    /\ nextRid = 4
    /\ saves = {}
    /\ errorLog = {}
    /\ response.op = "getProperty"
    /\ response.data.views = 2
    /\ properties[1].views = 1

(***************************************************************************)
(* The inquiry counter of a service.                                       *)
(***************************************************************************)
MaxInquiries == 3

\* serviceSchema.methods.incrementInquiries, up to the call of save(): the
\* document in memory counts one more inquiry.
incrementInquiries(doc) == Assign(doc, [inquiries |-> doc.inquiries + 1])

\* POST /api/v1/services/:id/inquiry: findById, 404 when there is none;
\* incrementInquiries adds one to the document in memory and saves it, and
\* the response then shows that document's counter plus one.  A rejected
\* save reaches the error handler.
recordInquiry(id, storeOk) ==
    /\ request' = [op |-> "recordInquiry", id |-> id]
    /\ crawl' = NoCrawl
    /\ UNCHANGED <<propVars, contactVars, now, viewVars, envVars, nextSid, serviceSaves>>
    /\ IF id \notin DOMAIN services
         THEN /\ storeCalls' = <<Call("findById")>>
              /\ response' = Failure("recordInquiry", 404, "NOT_FOUND")
              /\ UNCHANGED services
         ELSE LET service == incrementInquiries(services[id])
              IN /\ storeCalls' = <<Call("findById"), Call("updateOne")>>
                 /\ IF ~storeOk
                      THEN /\ response' = ErrorHandler("recordInquiry", NetworkError, nodeEnv)
                           /\ UNCHANGED services
                      ELSE /\ services' = [services EXCEPT ![id] =
                                   Assign(@, [inquiries |-> service.inquiries])]
                           /\ response' = Success("recordInquiry", 200,
                                  [id |-> id, inquiries |-> service.inquiries + 1])

InquiryBodies == {[title |-> "Valuation"], [title |-> "Valuation", featured |-> TRUE]}

InquiryNext ==
    \/ \E body \in InquiryBodies : nextSid <= 2 /\ createService(body)
    \/ \E id \in 1..2, storeOk \in BOOLEAN :
          /\ id \in DOMAIN services => services[id].inquiries < MaxInquiries
          /\ recordInquiry(id, storeOk)
    \/ \E id \in 1..2 : deleteService(id)

InquirySpec == Init /\ [][InquiryNext]_vars

\* C28: recordInquiry on an existing service increases the stored
\* metadata.inquiries counter by exactly 1, and the inquiries value of its
\* response equals the stored counter after the operation.
C28_ResponseEqualsStoredCounter ==
    [][(request'.op = "recordInquiry" /\ response'.success)
         => /\ services'[request'.id].inquiries = services[request'.id].inquiries + 1
            /\ response'.data.inquiries = services'[request'.id].inquiries]_vars

\* What recordInquiry does: the stored counter grows by exactly 1, a
\* rejected save or a missing service leaves every counter as it was, and
\* the response shows the stored counter plus one.
RecordInquiryAddsOne ==
    [][request'.op = "recordInquiry"
         => IF response'.success
              THEN /\ services' = [services EXCEPT ![request'.id] =
                          Assign(@, [inquiries |-> @.inquiries + 1])]
                   /\ response'.data.inquiries = services'[request'.id].inquiries + 1
              ELSE services' = services]_vars

\* A first inquiry was recorded: the store counts 1 and the response shows 2.
InquiryRecorded ==
    /\ request.op = "recordInquiry"
    /\ response.success
    /\ services[request.id].inquiries = 1
    /\ response.data.inquiries = 2

(***************************************************************************)
(* The contact workflow, one store call at a time.                         *)
(***************************************************************************)
\* What save() rejects with when the document it updates is gone.
DocumentNotFoundError ==
    [name |-> "DocumentNotFoundError", message |-> "No document found for query",
     stack |-> "DocumentNotFoundError: No document found for query"]

\* markAsContacted up to its first await: the lookup.
markAsContactedFind(id, body) ==
    /\ request' = [op |-> "markAsContacted", id |-> id, body |-> body]
    /\ UNCHANGED <<propVars, contactVars, now, crawl, viewVars, nodeEnv, hits, userVars,
                   serviceVars>>
    /\ storeCalls' = <<Call("findById")>>
    /\ IF id \notin DOMAIN contacts
         THEN /\ response' = Failure("markAsContacted", 404, "NOT_FOUND")
              /\ UNCHANGED inflight
         ELSE /\ response' = NoResponse
              /\ inflight' = inflight \cup {[op |-> "markAsContacted", id |-> id, body |-> body,
                                             status |-> contacts[id].status]}

\* contactSchema.methods.markAsContacted, mutated: the status is set and
\* the response date is not.
markAsContactedWriteStatusOnly(h) ==
    /\ h \in inflight
    /\ h.op = "markAsContacted"
    /\ inflight' = inflight \ {h}
    /\ request' = [op |-> "markAsContacted", id |-> h.id, body |-> h.body]
    /\ storeCalls' = <<Call("updateOne")>>
    /\ UNCHANGED <<propVars, nextCid, now, crawl, viewVars, nodeEnv, hits, userVars,
                   serviceVars>>
    /\ LET modified ==
             Assign(IF h.status # "contacted" THEN [status |-> "contacted"] ELSE Empty,
                    IF Has(h.body, "notes") /\ Len(h.body.notes) > 0
                      THEN CastContact([notes |-> h.body.notes]) ELSE Empty)
       IN IF ~ValidContactPaths(modified, DOMAIN modified)
            THEN /\ response' = Failure("markAsContacted", 400, "VALIDATION_ERROR")
                 /\ UNCHANGED contacts
          ELSE IF h.id \notin DOMAIN contacts
            THEN /\ response' = ErrorHandler("markAsContacted", DocumentNotFoundError, nodeEnv)
                 /\ UNCHANGED contacts
          ELSE /\ contacts' = [contacts EXCEPT ![h.id] = Assign(@, modified)]
               /\ response' = Success("markAsContacted", 200,
                      [id |-> h.id, status |-> "contacted"])

\* markAsContacted from contact.markAsContacted(notes) on: the document in
\* memory gets the status, the response date and the notes, and save()
\* writes the paths that changed; the response shows the document in
\* memory.  A save of a document that is gone is rejected.
markAsContactedWrite(h) ==
    /\ h \in inflight
    /\ h.op = "markAsContacted"
    /\ inflight' = inflight \ {h}
    /\ request' = [op |-> "markAsContacted", id |-> h.id, body |-> h.body]
    /\ storeCalls' = <<Call("updateOne")>>
    /\ UNCHANGED <<propVars, nextCid, now, crawl, viewVars, nodeEnv, hits, userVars,
                   serviceVars>>
    /\ LET modified ==
             Assign(Assign(IF h.status # "contacted" THEN [status |-> "contacted"] ELSE Empty,
                           [responseDate |-> now]),
                    IF Has(h.body, "notes") /\ Len(h.body.notes) > 0
                      THEN CastContact([notes |-> h.body.notes]) ELSE Empty)
       IN IF ~ValidContactPaths(modified, DOMAIN modified)
            THEN /\ response' = Failure("markAsContacted", 400, "VALIDATION_ERROR")
                 /\ UNCHANGED contacts
          ELSE IF h.id \notin DOMAIN contacts
            THEN /\ response' = ErrorHandler("markAsContacted", DocumentNotFoundError, nodeEnv)
                 /\ UNCHANGED contacts
          ELSE /\ contacts' = [contacts EXCEPT ![h.id] = Assign(@, modified)]
               /\ response' = Success("markAsContacted", 200,
                      [id |-> h.id, status |-> "contacted", responseDate |-> now])

\* Submissions, one of them naming the workflow fields in its body.
WorkflowBodies ==
    LifecycleBodies \cup
    {Assign(b, [status |-> "contacted", responseDate |-> 0]) : b \in LifecycleBodies}

WorkflowUpdates == {[status |-> "contacted"], [status |-> "pending"],
                    [status |-> "resolved", priority |-> "low"]}

WorkflowNext ==
    \/ \E body \in WorkflowBodies : nextCid <= 1 /\ submitContact(body)
    \/ \E body \in WorkflowUpdates :
          Cardinality(inflight) < 2 /\ updateContactFind(1, body)
    \/ \E h \in inflight : updateContactWrite(h)
    \/ \E body \in {Empty} :
          Cardinality(inflight) < 2 /\ markAsContactedFind(1, body)
    \/ \E h \in inflight : markAsContactedWrite(h)
    \/ deleteContact(1)
    \/ Tick

WorkflowSpec == Init /\ [][WorkflowNext]_vars

\* C29: in every reachable state, under any interleaving of submitContact,
\* updateContact and markAsContacted, a contact whose status is 'contacted'
\* has its responseDate set; a contact created by submitContact starts with
\* status 'pending' and no responseDate.
C29_ContactedHasResponseDate ==
    /\ [](\A id \in DOMAIN contacts :
             contacts[id].status = "contacted" => Has(contacts[id], "responseDate"))
    /\ [][\A id \in (DOMAIN contacts') \ (DOMAIN contacts) :
             /\ request'.op = "submitContact"
             /\ contacts'[id].status = "pending"
             /\ ~Has(contacts'[id], "responseDate")]_vars

\* The contact was marked as contacted while an update that read it as
\* pending, and asks for 'contacted', has still to write.
C29_Witness ==
    /\ 1 \in DOMAIN contacts
    /\ contacts[1].status = "contacted"
    /\ Has(contacts[1], "responseDate")
    /\ \E h \in inflight :
          /\ h.op = "updateContact"
          /\ h.status = "pending"
          /\ h.body = [status |-> "contacted"]

\* A submission whose body named status 'contacted' was stored as pending.
C29_WitnessSubmitted ==
    /\ request.op = "submitContact"
    /\ Has(request.body, "status")
    /\ response.success
    /\ 1 \in DOMAIN contacts
    /\ contacts[1].status = "pending"
    /\ ~Has(contacts[1], "responseDate")
=============================================================================
